---- MODULE Spec2Model ----
(***************************************************************************)
(* BALANCE Cipher lead funnel: the Intake Relay (api/applications) in its  *)
(* seven variants, and the Lead Capture Wizard (App) that posts to it.     *)
(* Text is a sequence of one-character strings, a                          *)
(* JavaScript value is a tagged record, a JSON response body is a record   *)
(* from field names to JavaScript values.                                  *)
(***************************************************************************)
EXTENDS Integers, Sequences, FiniteSets, TLC

(***************************************************************************)
(* Bounds of the model                                                     *)
(***************************************************************************)
\* the configured credentials have the lengths 1, 5, ..., 1 + 4 * MaxKeySteps
MaxKeySteps == 1
\* how far a long upstream body exceeds the relay's preview limit
LongExtra == 1
\* how many different access codes generateAccessCode can draw
MaxCodes == 2
\* how many requests the wizard issues in one run
MaxPosts == 2
\* how many times the decode is started in one run
MaxSessions == 2

(***************************************************************************)
(* JavaScript values                                                       *)
(***************************************************************************)
Undefined == [t |-> "undefined"]
JNull == [t |-> "null"]
JBool(b) == [t |-> "bool", v |-> b]
JNum(n) == [t |-> "num", v |-> n]
\* a string whose characters the program inspects
JStr(s) == [t |-> "str", v |-> s]
\* a string literal of the source, never inspected
JLit(s) == [t |-> "lit", v |-> s]
\* an object produced by JSON.parse: a sequence of <<key, value>> members
JObj(ms) == [t |-> "obj", v |-> ms]
\* an object literal of the source: a record from field names to values
JRec(r) == [t |-> "rec", v |-> r]
\* a thrown Error
JErr(msg) == [t |-> "err", v |-> msg]

\* ToBoolean(x), as used by `!x`, `x && ...`, `x ? :` and `x || ...`
Truthy(x) ==
  CASE x.t = "undefined" -> FALSE
    [] x.t = "null" -> FALSE
    [] x.t = "bool" -> x.v
    [] x.t = "num" -> x.v # 0
    [] x.t = "str" -> Len(x.v) > 0
    [] x.t = "lit" -> x.v # ""
    [] OTHER -> TRUE

\* typeof x
TypeOf(x) ==
  CASE x.t = "undefined" -> "undefined"
    [] x.t = "bool" -> "boolean"
    [] x.t = "num" -> "number"
    [] x.t \in {"str", "lit"} -> "string"
    [] OTHER -> "object"

(***************************************************************************)
(* String operations                                                       *)
(***************************************************************************)
IsWs(c) == c \in {" ", "\n", "\t", "\r"}

RECURSIVE TrimStart(_)
TrimStart(s) == IF s # <<>> /\ IsWs(Head(s)) THEN TrimStart(Tail(s)) ELSE s

RECURSIVE TrimEnd(_)
TrimEnd(s) ==
  IF s # <<>> /\ IsWs(s[Len(s)]) THEN TrimEnd(SubSeq(s, 1, Len(s) - 1)) ELSE s

\* String.prototype.trim
Trim(s) == TrimEnd(TrimStart(s))

UpperAlphabet ==
  <<"A", "B", "C", "D", "E", "F", "G", "H", "I", "J", "K", "L", "M",
    "N", "O", "P", "Q", "R", "S", "T", "U", "V", "W", "X", "Y", "Z">>
LowerAlphabet ==
  <<"a", "b", "c", "d", "e", "f", "g", "h", "i", "j", "k", "l", "m",
    "n", "o", "p", "q", "r", "s", "t", "u", "v", "w", "x", "y", "z">>

LowerChar(c) ==
  IF \E i \in 1..26 : UpperAlphabet[i] = c
    THEN LowerAlphabet[CHOOSE i \in 1..26 : UpperAlphabet[i] = c]
    ELSE c

\* String.prototype.toLowerCase
ToLowerCase(s) == [i \in 1..Len(s) |-> LowerChar(s[i])]

UpperChar(c) ==
  IF \E i \in 1..26 : LowerAlphabet[i] = c
    THEN UpperAlphabet[CHOOSE i \in 1..26 : LowerAlphabet[i] = c]
    ELSE c

\* String.prototype.toUpperCase
ToUpperCase(s) == [i \in 1..Len(s) |-> UpperChar(s[i])]

\* s.slice(0, n)
SliceTo(s, n) == SubSeq(s, 1, IF Len(s) < n THEN Len(s) ELSE n)

\* s.slice(-n)
SliceLast(s, n) == SubSeq(s, IF Len(s) > n THEN Len(s) - n + 1 ELSE 1, Len(s))

\* s.includes(p)
Includes(s, p) ==
  \E i \in 0..(Len(s) - Len(p)) : SubSeq(s, i + 1, i + Len(p)) = p

\* s.replace(/\/$/, ""): drops one trailing slash
StripOneSlash(s) ==
  IF s # <<>> /\ s[Len(s)] = "/" THEN SubSeq(s, 1, Len(s) - 1) ELSE s

\* s.replace(/\/+$/, ""): drops every trailing slash
RECURSIVE StripSlashes(_)
StripSlashes(s) ==
  IF s # <<>> /\ s[Len(s)] = "/" THEN StripSlashes(SubSeq(s, 1, Len(s) - 1)) ELSE s

(***************************************************************************)
(* JSON.parse and JSON.stringify on the subset: objects, strings (with the *)
(* escapes \" and \\), non-negative integers, true, false, null            *)
(***************************************************************************)
Digits == <<"0", "1", "2", "3", "4", "5", "6", "7", "8", "9">>
IsDigit(c) == \E d \in 1..10 : Digits[d] = c
DigitVal(c) == (CHOOSE d \in 1..10 : Digits[d] = c) - 1

PFail == [ok |-> FALSE, v |-> Undefined, i |-> 0]
POk(val, next) == [ok |-> TRUE, v |-> val, i |-> next]

RECURSIVE SkipWs(_, _)
SkipWs(s, i) == IF i <= Len(s) /\ IsWs(s[i]) THEN SkipWs(s, i + 1) ELSE i

\* the characters of a string literal from position i (after the opening quote)
RECURSIVE ParseChars(_, _, _)
ParseChars(s, i, acc) ==
  IF i > Len(s) THEN PFail
  ELSE IF s[i] = "\"" THEN POk(JStr(acc), i + 1)
  ELSE IF s[i] = "\\"
    THEN IF i + 1 <= Len(s) /\ s[i + 1] \in {"\"", "\\"}
           THEN ParseChars(s, i + 2, Append(acc, s[i + 1]))
           ELSE PFail
  ELSE ParseChars(s, i + 1, Append(acc, s[i]))

RECURSIVE ParseDigits(_, _, _)
ParseDigits(s, i, acc) ==
  IF i <= Len(s) /\ IsDigit(s[i])
    THEN ParseDigits(s, i + 1, 10 * acc + DigitVal(s[i]))
    ELSE POk(JNum(acc), i)

ParseWord(s, i, w, val) ==
  IF i + Len(w) - 1 <= Len(s) /\ SubSeq(s, i, i + Len(w) - 1) = w
    THEN POk(val, i + Len(w))
    ELSE PFail

RECURSIVE ParseValue(_, _)
RECURSIVE ParseMembers(_, _, _)
ParseValue(s, i0) ==
  LET i == SkipWs(s, i0) IN
  IF i > Len(s) THEN PFail
  ELSE IF s[i] = "{" THEN
    LET j == SkipWs(s, i + 1) IN
    IF j <= Len(s) /\ s[j] = "}" THEN POk(JObj(<<>>), j + 1)
    ELSE ParseMembers(s, j, <<>>)
  ELSE IF s[i] = "\"" THEN ParseChars(s, i + 1, <<>>)
  ELSE IF IsDigit(s[i]) THEN ParseDigits(s, i, 0)
  ELSE IF s[i] = "t" THEN ParseWord(s, i, <<"t", "r", "u", "e">>, JBool(TRUE))
  ELSE IF s[i] = "f" THEN ParseWord(s, i, <<"f", "a", "l", "s", "e">>, JBool(FALSE))
  ELSE IF s[i] = "n" THEN ParseWord(s, i, <<"n", "u", "l", "l">>, JNull)
  ELSE PFail

\* members of an object from position i0 (a key is expected there)
ParseMembers(s, i0, acc) ==
  LET i == SkipWs(s, i0)
      k == ParseChars(s, i + 1, <<>>)
      c == SkipWs(s, k.i)
      val == ParseValue(s, c + 1)
      e == SkipWs(s, val.i)
      ms == Append(acc, <<k.v.v, val.v>>)
  IN IF \/ i > Len(s) \/ s[i] # "\""
        \/ ~k.ok
        \/ c > Len(s) \/ s[c] # ":"
        \/ ~val.ok
        \/ e > Len(s) \/ s[e] \notin {"}", ","}
       THEN PFail
       ELSE IF s[e] = "}" THEN POk(JObj(ms), e + 1)
       ELSE ParseMembers(s, e + 1, ms)

\* JSON.parse(s): [ok |-> TRUE, value] or [ok |-> FALSE] when it throws
JsonParse(s) ==
  LET r == ParseValue(s, 1) IN
  IF r.ok /\ SkipWs(s, r.i) = Len(s) + 1
    THEN [ok |-> TRUE, value |-> r.v]
    ELSE [ok |-> FALSE, value |-> Undefined]

RECURSIVE NumText(_)
NumText(n) ==
  IF n < 10 THEN <<Digits[n + 1]>> ELSE NumText(n \div 10) \o <<Digits[(n % 10) + 1]>>

RECURSIVE Escape(_)
Escape(s) ==
  IF s = <<>> THEN <<>>
  ELSE (IF Head(s) \in {"\"", "\\"} THEN <<"\\", Head(s)>> ELSE <<Head(s)>>)
       \o Escape(Tail(s))

Quote(s) == <<"\"">> \o Escape(s) \o <<"\"">>

RECURSIVE StringifyText(_)
RECURSIVE StringifyMembers(_, _)
\* the text of JSON.stringify(x) for a value that has one
StringifyText(x) ==
  CASE x.t = "null" -> <<"n", "u", "l", "l">>
    [] x.t = "bool" -> IF x.v THEN <<"t", "r", "u", "e">> ELSE <<"f", "a", "l", "s", "e">>
    [] x.t = "num" -> NumText(x.v)
    [] x.t = "str" -> Quote(x.v)
    [] x.t = "obj" -> <<"{">> \o StringifyMembers(x.v, 1) \o <<"}">>

StringifyMembers(ms, i) ==
  IF i > Len(ms) THEN <<>>
  ELSE Quote(ms[i][1]) \o <<":">> \o StringifyText(ms[i][2])
       \o (IF i < Len(ms) THEN <<",">> ELSE <<>>)
       \o StringifyMembers(ms, i + 1)

\* JSON.stringify(x): a string, or undefined for undefined
JsonStringify(x) == IF x.t = "undefined" THEN Undefined ELSE JStr(StringifyText(x))

\* x[key] for an object produced by JSON.parse (the last member of that name)
GetMember(x, key) ==
  IF x.t = "obj" /\ \E i \in 1..Len(x.v) : x.v[i][1] = key
    THEN x.v[CHOOSE i \in 1..Len(x.v) :
               x.v[i][1] = key /\ \A j \in (i + 1)..Len(x.v) : x.v[j][1] # key][2]
    ELSE Undefined

(***************************************************************************)
(* The relay handler, by variant                                           *)
(***************************************************************************)
\* part_000; part_001; part_002; part_003 lines 12-128 and 131-200;
\* App.tsx lines 1591-1662 and 1664-1736
Variants ==
  {"part_000", "part_001", "part_002", "part_003a", "part_003b", "App_a", "App_b"}

\* the variants that validate `applicant`
StrictVariants == {"part_001", "part_003a"}

\* the variants that answer with the safeDebug block
SafeDebugVariants == {"part_003b", "App_b"}

EmptyRec == [k \in {} |-> Undefined]

\* res.json(r): members whose value is undefined are not serialised
Json(r) == JRec([k \in {f \in DOMAIN r : r[f].t # "undefined"} |-> r[k]])

\* a spread `...(c ? r : {})`
Spread(c, r) == IF c THEN r ELSE EmptyRec

\* x || ""
OrEmpty(x) == IF Truthy(x) THEN x ELSE JStr(<<>>)

TrueText == <<"t", "r", "u", "e">>
ApiPath ==
  <<"/", "a", "p", "i", "/", "a", "p", "p", "l", "i", "c", "a", "t", "i", "o", "n", "s">>
JsonType ==
  <<"a", "p", "p", "l", "i", "c", "a", "t", "i", "o", "n", "/", "j", "s", "o", "n">>
Applicant == <<"a", "p", "p", "l", "i", "c", "a", "n", "t">>
ContentTypeName == <<"C", "o", "n", "t", "e", "n", "t", "-", "T", "y", "p", "e">>
XApiKeyName == <<"X", "-", "A", "P", "I", "-", "K", "e", "y">>
XApiKeyUpperName == <<"X", "-", "A", "P", "I", "-", "K", "E", "Y">>

\* the length of the previews: raw.slice(0, 500), upstreamBody.slice(0, 500)
PreviewLen == 500

\* the res.setHeader calls at the top of the handler
CorsHeaders(v) ==
  CASE v = "part_000" ->
         {<<"Access-Control-Allow-Origin", "*">>,
          <<"Access-Control-Allow-Methods", "POST, OPTIONS">>,
          <<"Access-Control-Allow-Headers", "Content-Type, X-API-Key">>}
    [] v \in StrictVariants ->
         {<<"Access-Control-Allow-Origin", "*">>,
          <<"Access-Control-Allow-Methods", "POST, OPTIONS">>,
          <<"Access-Control-Allow-Headers", "Content-Type">>}
    [] OTHER -> {}

\* res.status(status).json(r)
Respond(v, status, r) == [status |-> status, headers |-> CorsHeaders(v), body |-> Json(r)]

\* res.status(status).end()
RespondEnd(v, status) == [status |-> status, headers |-> CorsHeaders(v), body |-> Undefined]

\* const baseUrl = process.env.REPLIT_CRM_BASE_URL
baseUrl(v, e) == IF v \in StrictVariants THEN JStr(Trim(OrEmpty(e.base).v)) ELSE e.base

\* const apiKey = process.env.REPLIT_NP_API_KEY
apiKey(v, e) == IF v \in StrictVariants THEN JStr(Trim(OrEmpty(e.key).v)) ELSE e.key

\* const debug = ... process.env.CRM_RELAY_DEBUG ...
debug(v, e) ==
  IF v \in SafeDebugVariants
    THEN e.debug = JStr(TrueText)
    ELSE ToLowerCase(OrEmpty(e.debug).v) = TrueText

\* const safeDebug = debug ? { ... } : undefined
safeDebug(v, e) ==
  LET k == apiKey(v, e) IN
  IF debug(v, e)
    THEN JRec([hasBaseUrl |-> JBool(Truthy(baseUrl(v, e))),
               hasApiKey |-> JBool(Truthy(k)),
               apiKeyLen |-> JNum(IF Truthy(k) THEN Len(k.v) ELSE 0),
               apiKeyLast4 |-> JStr(IF Truthy(k) THEN SliceLast(k.v, 4) ELSE <<>>),
               apiKeyPrefix8 |-> JStr(IF Truthy(k) THEN SliceTo(k.v, 8) ELSE <<>>)])
    ELSE Undefined

\* MethodResponse with a method check that lets PUT through as well as POST
MethodResponse_PutPasses(v, method) ==
  IF v = "part_000" /\ method = "OPTIONS" THEN RespondEnd(v, 200)
  ELSE IF v \in StrictVariants /\ method = "OPTIONS" THEN RespondEnd(v, 204)
  ELSE IF method \notin {"POST", "PUT"} THEN
    Respond(v, 405, [ok |-> JBool(FALSE), error |-> JLit("Method not allowed")])
  ELSE Undefined

\* the method checks: the response they send, or undefined when the request passes
MethodResponse(v, method) ==
  IF v = "part_000" /\ method = "OPTIONS" THEN RespondEnd(v, 200)
  ELSE IF v \in StrictVariants /\ method = "OPTIONS" THEN RespondEnd(v, 204)
  ELSE IF method # "POST" THEN
    IF v \in StrictVariants
      THEN Respond(v, 405, [ok |-> JBool(FALSE), error |-> JLit("Method Not Allowed"),
                            allowed |-> JLit("[POST]")])
      ELSE Respond(v, 405, [ok |-> JBool(FALSE), error |-> JLit("Method not allowed")])
  ELSE Undefined

\* the `missing` member of the configuration error
MissingFlags(v, e) ==
  JRec([REPLIT_CRM_BASE_URL |-> JBool(~Truthy(baseUrl(v, e))),
        REPLIT_NP_API_KEY |-> JBool(~Truthy(apiKey(v, e)))])

\* if (!baseUrl || !apiKey) return res.status(500).json(...)
ConfigResponse(v, e) ==
  IF Truthy(baseUrl(v, e)) /\ Truthy(apiKey(v, e)) THEN Undefined
  ELSE CASE v = "part_000" ->
         Respond(v, 500, [ok |-> JBool(FALSE),
                          error |-> JLit("Missing REPLIT_CRM_BASE_URL or REPLIT_NP_API_KEY"),
                          missing |-> MissingFlags(v, e)])
    [] v \in StrictVariants ->
         Respond(v, 500, [ok |-> JBool(FALSE),
                          error |-> JLit("Missing required environment variables"),
                          missing |-> MissingFlags(v, e)]
                         @@ Spread(debug(v, e),
                              [hint |-> JLit(IF v = "part_001"
                                               THEN "Set env vars in Vercel -> Settings"
                                               ELSE "Set env vars in Vercel -> Project -> Settings")]))
    [] v = "part_002" ->
         Respond(v, 500, [ok |-> JBool(FALSE),
                          error |-> JLit("Missing REPLIT_CRM_BASE_URL or REPLIT_NP_API_KEY")])
    [] v \in SafeDebugVariants ->
         Respond(v, 500, [ok |-> JBool(FALSE),
                          error |-> JLit("Missing REPLIT_CRM_BASE_URL or REPLIT_NP_API_KEY")]
                         @@ Spread(Truthy(safeDebug(v, e)), [debug |-> safeDebug(v, e)]))
    [] v = "App_a" ->
         Respond(v, 500, [ok |-> JBool(FALSE),
                          error |-> JLit("Missing REPLIT_CRM_BASE_URL or REPLIT_NP_API_KEY"),
                          debug |-> IF debug(v, e)
                                      THEN JRec([hasBaseUrl |-> JBool(Truthy(baseUrl(v, e))),
                                                 hasApiKey |-> JBool(Truthy(apiKey(v, e)))])
                                      ELSE Undefined])

\* `${baseUrl.replace(/\/$/, "")}/api/applications`, targetUrl in the strict variants
upstreamUrl(v, e) ==
  IF v \in StrictVariants
    THEN JStr(StripSlashes(baseUrl(v, e).v) \o ApiPath)
    ELSE JStr(StripOneSlash(baseUrl(v, e).v) \o ApiPath)

\* the message of the SyntaxError thrown by JSON.parse and upstream.json()
SyntaxError == JErr("Unexpected token")

\* the result of the body checks: the response they send (or undefined) and the payload
BodyOk(p) == [resp |-> Undefined, payload |-> p]
BodyRejected(r) == [resp |-> r, payload |-> Undefined]

\* const hasApplicant = incomingPayload && typeof incomingPayload === "object"
\*                      && incomingPayload.applicant
hasApplicant(p) == Truthy(p) /\ TypeOf(p) = "object" /\ Truthy(GetMember(p, Applicant))

\* part_000 lines 66-86: `raw` is the text read from the request stream
BodyChecksRaw(v, e, raw) ==
  IF raw = <<>> \/ Trim(raw) = <<>>
    THEN BodyRejected(Respond(v, 400,
           [ok |-> JBool(FALSE), error |-> JLit("Empty request body received by relay"),
            hint |-> JLit("Your frontend must POST JSON to /api/applications")]))
  ELSE IF ~JsonParse(raw).ok
    THEN BodyRejected(Respond(v, 400,
           [ok |-> JBool(FALSE), error |-> JLit("Invalid JSON body"),
            detail |-> JLit(SyntaxError.v), rawPreview |-> JStr(SliceTo(raw, PreviewLen))]))
  ELSE BodyOk(JsonParse(raw).value)

\* the strict variants: parse a string body, then require `applicant`
BodyChecksStrict(v, e, b) ==
  IF TypeOf(b) = "string" /\ ~JsonParse(b.v).ok
    THEN BodyRejected(Respond(v, 400,
           [ok |-> JBool(FALSE), error |-> JLit("Invalid JSON payload")]
           @@ Spread(debug(v, e), [receivedType |-> JLit(TypeOf(b)), receivedBody |-> b])))
  ELSE
    LET incomingPayload == IF TypeOf(b) = "string" THEN JsonParse(b.v).value ELSE b IN
    IF ~hasApplicant(incomingPayload)
      THEN BodyRejected(Respond(v, 400,
             [ok |-> JBool(FALSE), error |-> JLit("Payload missing required 'applicant' object")]
             @@ Spread(debug(v, e), [receivedPayload |-> incomingPayload])))
      ELSE BodyOk(incomingPayload)

\* the body checks of variant v on req.body = b (on the raw text in part_000)
BodyChecks(v, e, b) ==
  CASE v = "part_000" -> BodyChecksRaw(v, e, b.v)
    [] v \in StrictVariants -> BodyChecksStrict(v, e, b)
    [] v = "App_a" ->
         \* parse a string body, keep it as a string when that fails; then body ?? {}
         LET body == IF TypeOf(b) = "string" /\ JsonParse(b.v).ok
                       THEN JsonParse(b.v).value ELSE b
         IN BodyOk(IF body.t \in {"undefined", "null"} THEN JObj(<<>>) ELSE body)
    [] OTHER -> BodyOk(b)

\* the headers of the outbound fetch
OutboundHeaders(v, e) ==
  IF v = "part_003b"
    THEN <<<<ContentTypeName, JLit("application/json")>>,
           <<XApiKeyName, apiKey(v, e)>>,
           <<XApiKeyUpperName, apiKey(v, e)>>>>
    ELSE <<<<ContentTypeName, JLit("application/json")>>,
           <<XApiKeyName, apiKey(v, e)>>>>

\* fetch(upstreamUrl, { method: "POST", headers, body: JSON.stringify(payload) })
OutboundCall(v, e, p) ==
  [url |-> upstreamUrl(v, e), method |-> "POST",
   headers |-> OutboundHeaders(v, e), body |-> JsonStringify(p)]

\* upstream.ok
UpstreamOk(up) == up.status >= 200 /\ up.status <= 299

\* reading the upstream body: [threw, value]
upstreamBody(v, up) ==
  IF v \in StrictVariants
    THEN IF Includes(OrEmpty(up.ctype).v, JsonType)
           THEN [threw |-> ~JsonParse(up.text).ok, value |-> JsonParse(up.text).value]
           ELSE [threw |-> FALSE, value |-> JStr(up.text)]
    ELSE [threw |-> FALSE,
          value |-> IF JsonParse(up.text).ok THEN JsonParse(up.text).value
                    ELSE JRec([raw |-> JStr(up.text)])]

\* if (!upstream.ok) return res.status(...).json(...)
RejectResponse(v, e, p, up) ==
  LET ub == upstreamBody(v, up).value IN
  CASE v = "part_000" ->
         Respond(v, 502, [ok |-> JBool(FALSE),
                          message |-> JLit("Upstream CRM returned non-OK response"),
                          upstreamStatus |-> JNum(up.status), upstreamBody |-> ub]
                         @@ Spread(debug(v, e), [upstreamUrl |-> upstreamUrl(v, e)]))
    [] v = "part_001" ->
         Respond(v, up.status,
                 [ok |-> JBool(FALSE), error |-> JLit("Upstream CRM rejected the request"),
                  status |-> JNum(up.status), upstreamBody |-> ub]
                 @@ Spread(debug(v, e), [targetUrl |-> upstreamUrl(v, e), sentPayload |-> p]))
    [] v = "part_003a" ->
         Respond(v, up.status,
                 [ok |-> JBool(FALSE), error |-> JLit("Upstream CRM rejected the request"),
                  status |-> JNum(up.status),
                  upstreamBody |-> IF ~debug(v, e) /\ TypeOf(ub) = "string"
                                     THEN JStr(SliceTo(ub.v, PreviewLen)) ELSE ub]
                 @@ Spread(debug(v, e), [targetUrl |-> upstreamUrl(v, e), sentPayload |-> p]))
    [] v = "part_002" ->
         Respond(v, 502, [ok |-> JBool(FALSE), upstreamStatus |-> JNum(up.status),
                          upstreamBody |-> ub])
    [] v \in SafeDebugVariants ->
         Respond(v, 502, [ok |-> JBool(FALSE),
                          message |-> JLit("Upstream CRM returned non-OK response"),
                          upstreamStatus |-> JNum(up.status), upstreamBody |-> ub,
                          upstreamUrl |-> upstreamUrl(v, e)]
                         @@ Spread(Truthy(safeDebug(v, e)), [debug |-> safeDebug(v, e)]))
    [] v = "App_a" ->
         Respond(v, 502, [ok |-> JBool(FALSE), upstreamStatus |-> JNum(up.status),
                          upstreamBody |-> ub,
                          debug |-> IF debug(v, e)
                                      THEN JRec([upstreamUrl |-> upstreamUrl(v, e)])
                                      ELSE Undefined])

\* return res.status(200).json(...)
SuccessResponse(v, e, up) ==
  LET ub == upstreamBody(v, up).value IN
  CASE v = "part_000" ->
         Respond(v, 200, [ok |-> JBool(TRUE), upstream |-> ub]
                         @@ Spread(debug(v, e), [upstreamUrl |-> upstreamUrl(v, e)]))
    [] v \in StrictVariants ->
         Respond(v, 200, [ok |-> JBool(TRUE), message |-> JLit("Relayed to CRM successfully")]
                         @@ Spread(debug(v, e), [targetUrl |-> upstreamUrl(v, e),
                                                 upstreamBody |-> ub]))
    [] v = "part_002" -> Respond(v, 200, [ok |-> JBool(TRUE), upstream |-> ub])
    [] v \in SafeDebugVariants ->
         Respond(v, 200, [ok |-> JBool(TRUE), upstream |-> ub]
                         @@ Spread(Truthy(safeDebug(v, e)), [debug |-> safeDebug(v, e)]))
    [] v = "App_a" ->
         Respond(v, 200, [ok |-> JBool(TRUE), upstream |-> ub,
                          debug |-> IF debug(v, e)
                                      THEN JRec([upstreamUrl |-> upstreamUrl(v, e)])
                                      ELSE Undefined])

\* e?.message || fallback
MessageOr(err, fallback) == IF err.v # "" THEN JLit(err.v) ELSE JLit(fallback)

\* the catch block around the outbound call
CatchResponse(v, e, err) ==
  CASE v = "part_000" ->
         Respond(v, 500, [ok |-> JBool(FALSE),
                          error |-> MessageOr(err, "Unexpected relay error")])
    [] v \in StrictVariants ->
         Respond(v, 500, [ok |-> JBool(FALSE),
                          error |-> JLit("Relay failed (network/runtime error)")]
                         @@ Spread(debug(v, e), [details |-> JLit("Error: " \o err.v),
                                                 targetUrl |-> upstreamUrl(v, e)]))
    [] v = "part_002" ->
         Respond(v, 500, [ok |-> JBool(FALSE), error |-> MessageOr(err, "Unexpected error")])
    [] v \in SafeDebugVariants ->
         Respond(v, 500, [ok |-> JBool(FALSE), error |-> MessageOr(err, "Unexpected error")]
                         @@ Spread(Truthy(safeDebug(v, e)), [debug |-> safeDebug(v, e)]))
    [] v = "App_a" ->
         Respond(v, 500, [ok |-> JBool(FALSE), error |-> MessageOr(err, "Unexpected error"),
                          debug |-> IF debug(v, e)
                                      THEN JRec([stack |-> JLit("stack of " \o err.v)])
                                      ELSE Undefined])

\* the catch block around readRawBody (part_000 lines 60-64)
ReadErrorResponse(v, err) ==
  Respond(v, 400, [ok |-> JBool(FALSE), error |-> MessageOr(err, "Failed reading body")])

\* TryCovers with the fetch of part_002 left outside its try block
TryCovers_FetchOutside(v, op) ==
  CASE op = "readRawBody" -> v = "part_000"
    [] op = "fetch" -> v # "part_002"
    [] op = "upstream.body" -> TRUE

\* whether the call `op` of variant v sits inside a try block with a catch
TryCovers(v, op) ==
  CASE op = "readRawBody" -> v = "part_000"
    [] op = "fetch" -> TRUE
    [] op = "upstream.body" -> TRUE

\* readRawBody(req): the concatenated chunks, rejected beyond the size limit
RawLimit == 1000000
readRawBody(raw) ==
  IF Len(raw) > RawLimit
    THEN [ok |-> FALSE, err |-> JErr("Payload too large"), data |-> <<>>]
    ELSE [ok |-> TRUE, err |-> Undefined, data |-> raw]

(***************************************************************************)
(* The environment: configuration, inbound requests, upstream answers      *)
(***************************************************************************)
\* the text {"k":v}
ObjText(k, vtext) == <<"{">> \o Quote(k) \o <<":">> \o vtext \o <<"}">>

BaseText == <<"h", ":", "/", "/", "c">>
KeyText(n) == [i \in 1..n |-> IF i % 2 = 1 THEN "K" ELSE "7"]

BaseUrls == {Undefined, JStr(<<>>), JStr(BaseText), JStr(BaseText \o <<"/">>)}
\* unset, empty, blank, and keys around the 4 and 8 characters safeDebug previews
ApiKeys ==
  {Undefined, JStr(<<>>), JStr(<<" ">>)}
    \cup {JStr(KeyText(1 + 4 * n)) : n \in 0..MaxKeySteps}
DebugFlags == {Undefined, JStr(TrueText), JStr(<<"T", "R", "U", "E">>)}

\* process.env
Envs == [base : BaseUrls, key : ApiKeys, debug : DebugFlags]

Methods == {"GET", "PUT", "OPTIONS", "POST"}

ApplicantRecordText == ObjText(Applicant, ObjText(<<"n">>, Quote(<<"A">>)))
RequestTexts ==
  {<<>>, <<"h", "i">>, ApplicantRecordText,
   ObjText(Applicant, Quote(<<"x">>)), ObjText(Applicant, <<"n", "u", "l", "l">>),
   ObjText(<<"x">>, <<"1">>)}

\* an inbound request: the method, the text on the wire, and whether the host
\* hands req.body over as a string or as the parsed object
Requests ==
  {r \in [method : Methods, raw : RequestTexts, delivery : {"string", "object"}] :
     r.delivery = "object" => (r.raw = <<>> \/ JsonParse(r.raw).ok)}

\* part_000 reads the stream itself; the host's req.body plays no part there
RequestsFor(v) == {r \in Requests : v = "part_000" => r.delivery = "string"}

\* req.body as the host provides it
ReqBody(r) ==
  IF r.delivery = "string" THEN JStr(r.raw)
  ELSE IF r.raw = <<>> THEN Undefined
  ELSE JsonParse(r.raw).value

LongText == [i \in 1..(PreviewLen + LongExtra) |-> "x"]
UpstreamStatuses == {201, 300, 403}
UpstreamTypes == {Undefined, JStr(JsonType \o <<";", "u">>), JStr(<<"t", "e", "x", "t">>)}
LeadText == ObjText(<<"i", "d">>, Quote(<<"L", "1">>))
UpstreamTexts == {<<>>, LongText, LeadText}

\* an upstream HTTP response
UpstreamResponses == [status : UpstreamStatuses, ctype : UpstreamTypes, text : UpstreamTexts]

\* errors of the network stack: fetch and the request stream, the response stream
TransportErrors == {JErr("fetch failed"), JErr("")}
BodyErrors == {JErr("terminated")}

NoRequest == [method |-> "", raw |-> <<>>, delivery |-> ""]
NoUpstream == [status |-> 0, ctype |-> Undefined, text |-> <<>>]
NoThrow == [at |-> "none", err |-> Undefined]

(***************************************************************************)
(* State and actions                                                       *)
(***************************************************************************)
VARIABLES
  variant,    \* the deployed handler
  env,        \* process.env
  pc,         \* where the invocation is: idle, readRaw, fetch, readUpstream, done
  req,        \* the inbound request
  payload,    \* the parsed payload the handler forwards
  outbound,   \* the outbound calls made for this request
  upstream,   \* the upstream response received
  responses,  \* the responses sent for this request
  thrown,     \* the exception raised during this request
  uncaught    \* whether an exception left the handler

\* a second invocation of the same deployed handler, running beside the first:
\* the locals of its own call of handler(req, res)
VARIABLE peer

\* the state of the wizard component: the useState cells and refs of App()
VARIABLES
  view,            \* "landing" | "p2" | "p3" | "p4" | "p5" | "info"
  fatalError,      \* the text of the error overlay, or null
  firstName, lastName, email, accessCode, codeInput,
  p2First,         \* the first-name input of p2
  p5Stage,         \* "email" | "code"
  sendState,       \* "idle" | "sending" | "sent" | "error"
  sendMsg,
  rewardOn, rewardLetter, rewardCopy,
  rewardTimerRef,  \* the pending reward timeout and its `after` callback
  inflight,        \* the fetches of postToCrm that have not completed
  posted,          \* every request the wizard has issued, in order
  session          \* how many times the decode was started

\* the timeouts set for focus() calls that are pending in the browser
VARIABLE focusTimers

relayVars == <<variant, env, pc, req, payload, outbound, upstream, responses, thrown, uncaught>>

wizardVars ==
  <<view, fatalError, firstName, lastName, email, accessCode, codeInput, p2First, p5Stage,
    sendState, sendMsg, rewardOn, rewardLetter, rewardCopy, rewardTimerRef, inflight,
    posted, session>>

\* Home() of pages/Home: its useState cells, the value of BALANCE_APP.baseUrl
\* the build was made with, and where the "Apply this decode" link has led
VARIABLES
  goal,            \* "raise" | "approve" | "lower" | "calm"
  timeline,        \* "fast" | "steady"
  friction,        \* "confused" | "overwhelmed" | "noPlan" | "noFollowThrough"
  revealed,        \* the "Tap to Reveal" block is open
  appBaseUrl,      \* BALANCE_APP.baseUrl
  opened           \* the navigation the link has caused, NoNavigation before

homeVars == <<goal, timeline, friction, revealed, appBaseUrl, opened>>

NoNavigation == [tag |-> "none"]

\* Home as first rendered, built with baseUrl: ""
HomeInit ==
  /\ goal = "raise"
  /\ timeline = "fast"
  /\ friction = "overwhelmed"
  /\ revealed = FALSE
  /\ appBaseUrl = <<>>
  /\ opened = NoNavigation

\* the pages: the wizard's state and the timeouts it has set beside it, and
\* the landing page
pageVars == <<wizardVars, focusTimers, homeVars>>

vars == <<relayVars, peer, pageVars>>

\* an invocation that has not started
PeerIdle ==
  [pc |-> "idle", req |-> NoRequest, payload |-> Undefined, outbound |-> <<>>,
   upstream |-> NoUpstream, responses |-> <<>>, thrown |-> NoThrow, uncaught |-> FALSE]

NoTimer == "none"

\* the initial values of the useState and useRef calls of App()
WizardInit ==
  /\ view = "landing"
  /\ fatalError = JNull
  /\ firstName = <<>>
  /\ lastName = <<>>
  /\ email = <<>>
  /\ accessCode = <<>>
  /\ codeInput = <<>>
  /\ p2First = <<>>
  /\ p5Stage = "email"
  /\ sendState = "idle"
  /\ sendMsg = JStr(<<>>)
  /\ rewardOn = FALSE
  /\ rewardLetter = JNull
  /\ rewardCopy = JStr(<<>>)
  /\ rewardTimerRef = NoTimer
  /\ inflight = <<>>
  /\ posted = <<>>
  /\ session = 0
  /\ focusTimers = {}

\* one invocation of a deployed handler; no browser session is attached
RelayInit ==
  /\ variant \in Variants
  /\ env \in Envs
  /\ pc = "idle"
  /\ req = NoRequest
  /\ payload = Undefined
  /\ outbound = <<>>
  /\ upstream = NoUpstream
  /\ responses = <<>>
  /\ thrown = NoThrow
  /\ uncaught = FALSE

Init ==
  /\ RelayInit
  /\ peer = PeerIdle
  /\ WizardInit
  /\ HomeInit

\* return res.status(...)...
Send(r) ==
  /\ responses' = Append(responses, r)
  /\ pc' = "done"

\* an exception raised by the call `op`
Throw(op, err) ==
  /\ thrown' = [at |-> op, err |-> err]
  /\ pc' = "done"
  /\ IF TryCovers(variant, op)
       THEN /\ responses' = Append(responses,
                 IF op = "readRawBody" THEN ReadErrorResponse(variant, err)
                 ELSE CatchResponse(variant, env, err))
            /\ UNCHANGED uncaught
       ELSE /\ uncaught' = TRUE
            /\ UNCHANGED responses

\* the body checks and the outbound call
CheckAndForward(b) ==
  LET c == BodyChecks(variant, env, b) IN
  IF c.resp # Undefined
    THEN Send(c.resp) /\ UNCHANGED <<payload, outbound>>
    ELSE /\ payload' = c.payload
         /\ outbound' = Append(outbound, OutboundCall(variant, env, c.payload))
         /\ pc' = "fetch"
         /\ UNCHANGED responses

\* Invoke with the configuration tested before the method
Invoke_ConfigFirst(r) ==
  /\ pc = "idle"
  /\ req' = r
  /\ UNCHANGED <<variant, env, upstream, thrown, uncaught>>
  /\ IF ConfigResponse(variant, env) # Undefined
       THEN Send(ConfigResponse(variant, env)) /\ UNCHANGED <<payload, outbound>>
     ELSE IF MethodResponse(variant, r.method) # Undefined
       THEN Send(MethodResponse(variant, r.method)) /\ UNCHANGED <<payload, outbound>>
     ELSE IF variant = "part_000"
       THEN pc' = "readRaw" /\ UNCHANGED <<payload, outbound, responses>>
     ELSE CheckAndForward(ReqBody(r))

\* handler(req, res) up to its first await
Invoke(r) ==
  /\ pc = "idle"
  /\ req' = r
  /\ UNCHANGED <<variant, env, upstream, thrown, uncaught>>
  /\ IF MethodResponse(variant, r.method) # Undefined
       THEN Send(MethodResponse(variant, r.method)) /\ UNCHANGED <<payload, outbound>>
     ELSE IF ConfigResponse(variant, env) # Undefined
       THEN Send(ConfigResponse(variant, env)) /\ UNCHANGED <<payload, outbound>>
     ELSE IF variant = "part_000"
       THEN pc' = "readRaw" /\ UNCHANGED <<payload, outbound, responses>>
     ELSE CheckAndForward(ReqBody(r))

\* raw = await readRawBody(req) resolves or rejects on its size check
RawBodyEnd ==
  /\ pc = "readRaw"
  /\ UNCHANGED <<variant, env, req, upstream>>
  /\ IF readRawBody(req.raw).ok
       THEN CheckAndForward(JStr(readRawBody(req.raw).data)) /\ UNCHANGED <<thrown, uncaught>>
       ELSE Throw("readRawBody", readRawBody(req.raw).err) /\ UNCHANGED <<payload, outbound>>

\* the request stream emits "error"
RawBodyError(err) ==
  /\ pc = "readRaw"
  /\ Throw("readRawBody", err)
  /\ UNCHANGED <<variant, env, req, payload, outbound, upstream>>

\* await fetch(...) resolves with the upstream response
FetchResolve(up) ==
  /\ pc = "fetch"
  /\ upstream' = up
  /\ pc' = "readUpstream"
  /\ UNCHANGED <<variant, env, req, payload, outbound, responses, thrown, uncaught>>

\* FetchReject with one more attempt of the same call before giving up
FetchReject_Retries(err) ==
  /\ pc = "fetch"
  /\ IF Len(outbound) < 2
       THEN /\ outbound' = Append(outbound, outbound[1])
            /\ UNCHANGED <<pc, responses, thrown, uncaught>>
       ELSE Throw("fetch", err) /\ UNCHANGED outbound
  /\ UNCHANGED <<variant, env, req, payload, upstream>>

\* await fetch(...) rejects
FetchReject(err) ==
  /\ pc = "fetch"
  /\ Throw("fetch", err)
  /\ UNCHANGED <<variant, env, req, payload, outbound, upstream>>

\* await upstream.text() / upstream.json() completes; the outcome is mapped
UpstreamBodyRead ==
  /\ pc = "readUpstream"
  /\ UNCHANGED <<variant, env, req, payload, outbound, upstream>>
  /\ IF upstreamBody(variant, upstream).threw
       THEN Throw("upstream.body", SyntaxError)
     ELSE IF ~UpstreamOk(upstream)
       THEN Send(RejectResponse(variant, env, payload, upstream))
            /\ UNCHANGED <<thrown, uncaught>>
     ELSE Send(SuccessResponse(variant, env, upstream)) /\ UNCHANGED <<thrown, uncaught>>

\* await upstream.text() / upstream.json() rejects: the connection broke
UpstreamBodyFail(err) ==
  /\ pc = "readUpstream"
  /\ Throw("upstream.body", err)
  /\ UNCHANGED <<variant, env, req, payload, outbound, upstream>>

\* the invocation is over; the next request starts from a fresh handler
Finish ==
  /\ pc = "done"
  /\ pc' = "idle"
  /\ req' = NoRequest
  /\ payload' = Undefined
  /\ outbound' = <<>>
  /\ upstream' = NoUpstream
  /\ responses' = <<>>
  /\ thrown' = NoThrow
  /\ uncaught' = FALSE
  /\ UNCHANGED <<variant, env>>

\* the steps of one invocation; the quantified inputs are enumerated only where
\* the step is enabled
Next ==
  \/ pc = "idle" /\ (\E r \in RequestsFor(variant) : Invoke(r))
       /\ UNCHANGED <<peer, pageVars>>
  \/ RawBodyEnd /\ UNCHANGED <<peer, pageVars>>
  \/ pc = "readRaw" /\ (\E err \in TransportErrors : RawBodyError(err))
       /\ UNCHANGED <<peer, pageVars>>
  \/ pc = "fetch" /\ (\E up \in UpstreamResponses : FetchResolve(up))
       /\ UNCHANGED <<peer, pageVars>>
  \/ pc = "fetch" /\ (\E err \in TransportErrors : FetchReject(err))
       /\ UNCHANGED <<peer, pageVars>>
  \/ UpstreamBodyRead /\ UNCHANGED <<peer, pageVars>>
  \/ pc = "readUpstream" /\ (\E err \in BodyErrors : UpstreamBodyFail(err))
       /\ UNCHANGED <<peer, pageVars>>
  \/ Finish /\ UNCHANGED <<peer, pageVars>>

Spec == Init /\ [][Next]_vars

\* what the network did during one invocation: the errors of the request stream,
\* of fetch and of the response stream (undefined when none), and the answer
NetworkEvents(th, up) ==
  [rawErr |-> IF th.at = "readRawBody" THEN th.err ELSE Undefined,
   fetchErr |-> IF th.at = "fetch" THEN th.err ELSE Undefined,
   bodyErr |-> IF th.at = "upstream.body" /\ th.err \in BodyErrors THEN th.err ELSE Undefined,
   up |-> up]

\* the body the handler of variant v works on
HandlerBody(v, r) == IF v = "part_000" THEN JStr(r.raw) ELSE ReqBody(r)

\* handler(req, res) from top to bottom as one function of the request, the
\* configuration and what the network did: the response it sends
handlerAlone(v, e, r, net) ==
  LET c == BodyChecks(v, e, HandlerBody(v, r)) IN
  IF MethodResponse(v, r.method) # Undefined THEN MethodResponse(v, r.method)
  ELSE IF ConfigResponse(v, e) # Undefined THEN ConfigResponse(v, e)
  ELSE IF v = "part_000" /\ net.rawErr # Undefined THEN ReadErrorResponse(v, net.rawErr)
  ELSE IF v = "part_000" /\ ~readRawBody(r.raw).ok
    THEN ReadErrorResponse(v, readRawBody(r.raw).err)
  ELSE IF c.resp # Undefined THEN c.resp
  ELSE IF net.fetchErr # Undefined THEN CatchResponse(v, e, net.fetchErr)
  ELSE IF net.bodyErr # Undefined THEN CatchResponse(v, e, net.bodyErr)
  ELSE IF upstreamBody(v, net.up).threw THEN CatchResponse(v, e, SyntaxError)
  ELSE IF ~UpstreamOk(net.up) THEN RejectResponse(v, e, c.payload, net.up)
  ELSE SuccessResponse(v, e, net.up)

\* whether variant v gets as far as the outbound call for request r
Forwards(v, e, r) ==
  /\ MethodResponse(v, r.method) = Undefined
  /\ ConfigResponse(v, e) = Undefined
  /\ v = "part_000" => readRawBody(r.raw).ok
  /\ BodyChecks(v, e, HandlerBody(v, r)).resp = Undefined
(***************************************************************************)
(* Two invocations of the deployed handler running side by side            *)
(***************************************************************************)
\* the locals of the invocation whose continuation is running
Locals ==
  [pc |-> pc, req |-> req, payload |-> payload, outbound |-> outbound,
   upstream |-> upstream, responses |-> responses, thrown |-> thrown, uncaught |-> uncaught]

\* Resume with `upstream` declared at module level: one cell for both invocations
Resume_ModuleLevelUpstream ==
  /\ peer' = [Locals EXCEPT !.upstream = peer.upstream]
  /\ pc' = peer.pc
  /\ req' = peer.req
  /\ payload' = peer.payload
  /\ outbound' = peer.outbound
  /\ upstream' = upstream
  /\ responses' = peer.responses
  /\ thrown' = peer.thrown
  /\ uncaught' = peer.uncaught
  /\ UNCHANGED <<variant, env>>

\* the event loop runs the other invocation next: at every await, and before a
\* handler starts, the running invocation is suspended with its locals and the
\* other one continues with its own
Resume ==
  /\ peer' = Locals
  /\ pc' = peer.pc
  /\ req' = peer.req
  /\ payload' = peer.payload
  /\ outbound' = peer.outbound
  /\ upstream' = peer.upstream
  /\ responses' = peer.responses
  /\ thrown' = peer.thrown
  /\ uncaught' = peer.uncaught
  /\ UNCHANGED <<variant, env>>

\* the deployments, requests and upstream answers of the two-invocation runs
PairEnvs ==
  {e \in Envs : /\ e.base = JStr(BaseText)
                /\ e.key \in {Undefined, JStr(KeyText(5))}
                /\ e.debug \in {Undefined, JStr(TrueText)}}
PairRequests ==
  {r \in Requests : /\ r.delivery = "string"
                    /\ \/ r.method = "GET" /\ r.raw = <<>>
                       \/ r.method = "POST"
                          /\ r.raw \in {ApplicantRecordText, ObjText(Applicant, Quote(<<"x">>)),
                                        <<"h", "i">>}}
PairUpstreamResponses ==
  {u \in UpstreamResponses : /\ u.status \in {201, 403}
                             /\ u.ctype # Undefined
                             /\ u.text \in {<<>>, LeadText}}

PairInit ==
  /\ RelayInit
  /\ env \in PairEnvs
  /\ peer = PeerIdle
  /\ WizardInit
  /\ HomeInit

\* each step belongs to one invocation; the host interleaves the two at the awaits
PairNext ==
  \/ pc = "idle" /\ (\E r \in PairRequests : Invoke(r)) /\ UNCHANGED <<peer, pageVars>>
  \/ RawBodyEnd /\ UNCHANGED <<peer, pageVars>>
  \/ pc = "readRaw" /\ (\E err \in BodyErrors : RawBodyError(err))
       /\ UNCHANGED <<peer, pageVars>>
  \/ pc = "fetch" /\ (\E up \in PairUpstreamResponses : FetchResolve(up))
       /\ UNCHANGED <<peer, pageVars>>
  \/ pc = "fetch" /\ (\E err \in BodyErrors : FetchReject(err))
       /\ UNCHANGED <<peer, pageVars>>
  \/ UpstreamBodyRead /\ UNCHANGED <<peer, pageVars>>
  \/ pc = "readUpstream" /\ (\E err \in BodyErrors : UpstreamBodyFail(err))
       /\ UNCHANGED <<peer, pageVars>>
  \/ Resume /\ UNCHANGED pageVars

PairSpec == PairInit /\ [][PairNext]_vars

(***************************************************************************)
(* The wizard: App() of App.tsx                                            *)
(***************************************************************************)
\* safeTrimMax(v, maxLen)
safeTrimMax(v, maxLen) == SliceTo(Trim(v), maxLen)

\* /^[^\s@]+@[^\s@]+\.[^\s@]+$/.test(email.trim())
isValidEmail(e) ==
  LET t == Trim(e)
      ats == {i \in 1..Len(t) : t[i] = "@"}
  IN /\ \A i \in 1..Len(t) : ~IsWs(t[i])
     /\ Cardinality(ats) = 1
     /\ \E a \in ats :
          /\ a >= 2
          /\ \E d \in (a + 2)..(Len(t) - 1) : t[d] = "."

\* the alphabet of generateAccessCode
AccessCodeChars ==
  <<"A", "B", "C", "D", "E", "F", "G", "H", "J", "K", "L", "M", "N", "P", "Q", "R",
    "S", "T", "U", "V", "W", "X", "Y", "Z", "2", "3", "4", "5", "6", "7", "8", "9">>

\* generateAccessCode(): eight characters drawn with Math.random(); the draws
\* of the model are the codes number 1 .. MaxCodes of this family
AccessCodeNo(k) == [i \in 1..8 |-> AccessCodeChars[1 + ((i * k) % Len(AccessCodeChars))]]
generateAccessCode == {AccessCodeNo(k) : k \in 1..MaxCodes}

\* genRequestId(): crypto.randomUUID(), here the n-th identifier issued; two
\* calls never return the same identifier
genRequestId(n) == JStr(<<"u", "-">> \o NumText(n))

\* buildCanonPayload(params), for the n-th request
buildCanonPayload(params, n) ==
  JRec([source |-> JLit("balance-cypher-v2-clean"),
        requestId |-> genRequestId(n),
        startedAt |-> JLit("<now>"),
        tracking |-> JRec([event |-> JLit("decode_email_submit"),
                           accessCode |-> JStr(params.accessCode),
                           userAgent |-> JLit("<navigator.userAgent>"),
                           pageUrl |-> JLit("<window.location.href>"),
                           referrer |-> JLit("<document.referrer>")]),
        applicant |-> JRec([firstName |-> JStr(safeTrimMax(params.firstName, 40)),
                            lastName |-> JStr(safeTrimMax(params.lastName, 60)),
                            email |-> JStr(safeTrimMax(params.email, 120)),
                            phone |-> JLit(""), consent |-> JBool(TRUE),
                            vehicleType |-> JLit(""), incomeAbove1800 |-> JLit(""),
                            monthlyIncome |-> JLit(""),
                            yearsReceivingIncome |-> JNum(0),
                            monthsReceivingIncome |-> JNum(0),
                            dobMonth |-> JNum(0), dobDay |-> JNum(0), dobYear |-> JNum(0),
                            companyName |-> JLit(""), jobTitle |-> JLit(""),
                            housingPayment |-> JLit(""), street1 |-> JLit(""),
                            street2 |-> JLit(""), city |-> JLit(""), state |-> JLit(""),
                            zip |-> JLit(""), yearsAtAddress |-> JNum(0),
                            monthsAtAddress |-> JNum(0), ssn |-> JLit("")])])

\* x?.f
Member(x, f) == IF x.t = "rec" /\ f \in DOMAIN x.v THEN x.v[f] ELSE Undefined

\* a || b || c
FirstTruthy(xs) ==
  IF \E i \in 1..Len(xs) : Truthy(xs[i])
    THEN xs[CHOOSE i \in 1..Len(xs) : Truthy(xs[i]) /\ \A j \in 1..(i - 1) : ~Truthy(xs[j])]
    ELSE xs[Len(xs)]

\* postToCrm(payload) once the fetch has resolved with `res`: what it returns
\* or throws.  res.json is the parsed body, undefined when the body is not
\* JSON; the elapsed milliseconds are written <ms>
postToCrm(res) ==
  IF ~(res.status \in 200..299)
    THEN
      LET errorData == res.json
          relayMsg == IF errorData = Undefined THEN JLit("")
                      ELSE FirstTruthy(<<Member(errorData, "message"),
                                         Member(errorData, "error"),
                                         Member(errorData, "detail"), JLit("")>>)
          first == IF Truthy(relayMsg) THEN relayMsg.v
                   ELSE "CRM relay failed: " \o ToString(res.status) \o " " \o res.statusText
          rid == IF Truthy(Member(errorData, "requestId"))
                   THEN " (requestId: " \o Member(errorData, "requestId").v \o ")" ELSE ""
      IN [threw |-> TRUE, message |-> first \o rid \o " - <ms>ms", requestId |-> Undefined]
    ELSE [threw |-> FALSE, message |-> "", requestId |-> Member(res.json, "requestId")]

\* the answers of the relay route to the wizard's POST
RelayAnswers ==
  {[status |-> 200, statusText |-> "OK",
    json |-> JRec([ok |-> JBool(TRUE), upstream |-> JRec([id |-> JLit("L1")])])],
   [status |-> 200, statusText |-> "OK",
    json |-> JRec([ok |-> JBool(TRUE), requestId |-> JLit("q-1")])],
   [status |-> 502, statusText |-> "Bad Gateway",
    json |-> JRec([ok |-> JBool(FALSE),
                   message |-> JLit("Upstream CRM returned non-OK response"),
                   upstreamStatus |-> JNum(403)])],
   [status |-> 500, statusText |-> "Internal Server Error", json |-> Undefined]}

\* what the user types into the inputs
NameTexts == {<<>>, <<" ">>, <<" ", "A", "l">>}
LastNameTexts == {<<>>, <<" ">>, <<"B", "o", " ">>}
\* an address of 122 characters that matches the pattern as typed and no
\* longer does when cut to 120 characters
LongEmail == [i \in 1..118 |-> "a"] \o <<"@", "b", ".", "c">>
EmailTexts ==
  {<<>>, <<"a", "@", "b">>, <<" ", "a", "@", "b", ".", "c">>, <<"d", "@", "e", ".", "f">>,
   LongEmail}
CodeTexts ==
  {<<>>, <<"Z">>} \cup generateAccessCode
    \cup {<<" ">> \o ToLowerCase(c) \o <<" ">> : c \in generateAccessCode}

\* clearRewardTimer(): the pending timeout is cancelled, the ref is null
clearRewardTimer == rewardTimerRef' = NoTimer

\* showReward(letter, copy, holdMs, after)
showReward(letter, copy, after) ==
  /\ rewardLetter' = JLit(letter)
  /\ rewardCopy' = JLit(copy)
  /\ rewardOn' = TRUE
  /\ rewardTimerRef' = after

\* resetFlow without setEmail("")
resetFlow_KeepsEmail ==
  /\ p2First' = <<>>
  /\ firstName' = <<>>
  /\ lastName' = <<>>
  /\ email' = email
  /\ accessCode' = <<>>
  /\ codeInput' = <<>>
  /\ p5Stage' = "email"
  /\ sendState' = "idle"
  /\ sendMsg' = JStr(<<>>)
  /\ clearRewardTimer
  /\ rewardOn' = FALSE
  /\ rewardLetter' = JNull
  /\ rewardCopy' = JStr(<<>>)
  /\ fatalError' = JNull

\* resetFlow()
resetFlow ==
  /\ p2First' = <<>>
  /\ firstName' = <<>>
  /\ lastName' = <<>>
  /\ email' = <<>>
  /\ accessCode' = <<>>
  /\ codeInput' = <<>>
  /\ p5Stage' = "email"
  /\ sendState' = "idle"
  /\ sendMsg' = JStr(<<>>)
  /\ clearRewardTimer
  /\ rewardOn' = FALSE
  /\ rewardLetter' = JNull
  /\ rewardCopy' = JStr(<<>>)
  /\ fatalError' = JNull

\* GoToDecode offered in every view, not on the landing view only
GoToDecode_FromAnyView ==
  /\ session < MaxSessions
  /\ resetFlow
  /\ view' = "p2"
  /\ session' = session + 1
  /\ UNCHANGED <<inflight, posted>>

\* goToDecode(): the landing button
GoToDecode ==
  /\ view = "landing"
  /\ session < MaxSessions
  /\ resetFlow
  /\ view' = "p2"
  /\ session' = session + 1
  /\ UNCHANGED <<inflight, posted>>

\* onChange of the first-name input
SetP2First(t) ==
  /\ view = "p2"
  /\ ~rewardOn
  /\ p2First' = t
  /\ UNCHANGED <<view, fatalError, firstName, lastName, email, accessCode, codeInput, p5Stage,
                 sendState, sendMsg, rewardOn, rewardLetter, rewardCopy, rewardTimerRef,
                 inflight, posted, session>>

\* SubmitFirstFromP2 without the test `if (!fn) return`
SubmitFirstFromP2_NoGate ==
  /\ view = "p2"
  /\ IF rewardOn
       THEN UNCHANGED wizardVars
       ELSE /\ firstName' = safeTrimMax(p2First, 40)
            /\ showReward("B", "", "goTo_p3")
            /\ UNCHANGED <<view, fatalError, lastName, email, accessCode, codeInput, p2First,
                           p5Stage, sendState, sendMsg, inflight, posted, session>>

\* submitFirstFromP2(): the Continue button of p2, or Enter in its input
SubmitFirstFromP2 ==
  /\ view = "p2"
  /\ IF rewardOn \/ safeTrimMax(p2First, 40) = <<>>
       THEN UNCHANGED wizardVars
       ELSE /\ firstName' = safeTrimMax(p2First, 40)
            /\ showReward("B", "", "goTo_p3")
            /\ UNCHANGED <<view, fatalError, lastName, email, accessCode, codeInput, p2First,
                           p5Stage, sendState, sendMsg, inflight, posted, session>>

\* onChange of the last-name input
SetLastName(t) ==
  /\ view = "p3"
  /\ ~rewardOn
  /\ lastName' = t
  /\ UNCHANGED <<view, fatalError, firstName, email, accessCode, codeInput, p2First, p5Stage,
                 sendState, sendMsg, rewardOn, rewardLetter, rewardCopy, rewardTimerRef,
                 inflight, posted, session>>

\* submitLast() without the test of the trimmed last name
SubmitLast_NoGate ==
  /\ view = "p3"
  /\ IF rewardOn
       THEN UNCHANGED wizardVars
       ELSE /\ lastName' = safeTrimMax(lastName, 60)
            /\ showReward("A", "When was the last time you felt a shift inside you", "goTo_p4")
            /\ UNCHANGED <<view, fatalError, firstName, email, accessCode, codeInput, p2First,
                           p5Stage, sendState, sendMsg, inflight, posted, session>>

\* submitLast()
SubmitLast ==
  /\ view = "p3"
  /\ IF rewardOn \/ safeTrimMax(lastName, 60) = <<>>
       THEN UNCHANGED wizardVars
       ELSE /\ lastName' = safeTrimMax(lastName, 60)
            /\ showReward("A", "When was the last time you felt a shift inside you", "goTo_p4")
            /\ UNCHANGED <<view, fatalError, firstName, email, accessCode, codeInput, p2First,
                           p5Stage, sendState, sendMsg, inflight, posted, session>>

\* ContinueFromAwakening going straight to the final view
ContinueFromAwakening_SkipsEmail ==
  /\ view = "p4"
  /\ IF rewardOn
       THEN UNCHANGED wizardVars
       ELSE /\ view' = "info"
            /\ UNCHANGED <<fatalError, firstName, lastName, email, accessCode, codeInput,
                           p2First, p5Stage, sendState, sendMsg, rewardOn, rewardLetter,
                           rewardCopy, rewardTimerRef, inflight, posted, session>>

\* continueFromAwakening()
ContinueFromAwakening ==
  /\ view = "p4"
  /\ IF rewardOn
       THEN UNCHANGED wizardVars
       ELSE /\ p5Stage' = "email"
            /\ sendState' = "idle"
            /\ sendMsg' = JStr(<<>>)
            /\ view' = "p5"
            /\ UNCHANGED <<fatalError, firstName, lastName, email, accessCode, codeInput,
                           p2First, rewardOn, rewardLetter, rewardCopy, rewardTimerRef,
                           inflight, posted, session>>

\* SetEmail with an edit of the email that also discards the access code
SetEmail_ClearsCode(t) ==
  /\ view = "p5" /\ p5Stage = "email"
  /\ ~rewardOn /\ sendState # "sending"
  /\ email' = t
  /\ accessCode' = <<>>
  /\ IF sendState # "idle"
       THEN sendState' = "idle" /\ sendMsg' = JStr(<<>>)
       ELSE UNCHANGED <<sendState, sendMsg>>
  /\ UNCHANGED <<view, fatalError, firstName, lastName, codeInput, p2First, p5Stage,
                 rewardOn, rewardLetter, rewardCopy, rewardTimerRef, inflight, posted, session>>

\* SetEmail with the input left enabled while a request is out
SetEmail_WhileSending(t) ==
  /\ view = "p5" /\ p5Stage = "email"
  /\ ~rewardOn
  /\ email' = t
  /\ IF sendState # "idle"
       THEN sendState' = "idle" /\ sendMsg' = JStr(<<>>)
       ELSE UNCHANGED <<sendState, sendMsg>>
  /\ UNCHANGED <<view, fatalError, firstName, lastName, accessCode, codeInput, p2First,
                 p5Stage, rewardOn, rewardLetter, rewardCopy, rewardTimerRef, inflight,
                 posted, session>>

\* onChange of the email input (disabled while the reward shows or a request is out)
SetEmail(t) ==
  /\ view = "p5" /\ p5Stage = "email"
  /\ ~rewardOn /\ sendState # "sending"
  /\ email' = t
  /\ IF sendState # "idle"
       THEN sendState' = "idle" /\ sendMsg' = JStr(<<>>)
       ELSE UNCHANGED <<sendState, sendMsg>>
  /\ UNCHANGED <<view, fatalError, firstName, lastName, accessCode, codeInput, p2First,
                 p5Stage, rewardOn, rewardLetter, rewardCopy, rewardTimerRef, inflight,
                 posted, session>>

\* submitEmailProceeds without the test `if (sendState === "sending") return`
submitEmailProceeds_NoSendingGuard ==
  /\ ~rewardOn
  /\ isValidEmail(safeTrimMax(email, 120))

\* submitEmailProceeds without the test `if (!isValidEmail(em)) return`
submitEmailProceeds_NoEmailCheck ==
  /\ ~rewardOn
  /\ sendState # "sending"

\* submitEmailProceeds without the test `if (rewardOn) return`
submitEmailProceeds_NoRewardGuard ==
  /\ sendState # "sending"
  /\ isValidEmail(safeTrimMax(email, 120))

\* the early returns of submitEmailFromP5(): whether it goes on to submit
submitEmailProceeds ==
  /\ ~rewardOn
  /\ sendState # "sending"
  /\ isValidEmail(safeTrimMax(email, 120))

\* nextCode with a fresh code generated for every submission
nextCode_AlwaysNew(c) == c

\* nextCode without the call of generateAccessCode
nextCode_NoGenerate(c) == accessCode

\* const nextCode = accessCode || generateAccessCode(), c being the code drawn
nextCode(c) == IF accessCode # <<>> THEN accessCode ELSE c

\* RELAY_ROUTE naming the route the tripwire watches for
RELAY_ROUTE_Legacy ==
  <<"/", "a", "p", "i", "/", "s", "u", "b", "m", "i", "t", "-", "a", "p", "p", "l", "i", "c",
    "a", "t", "i", "o", "n">>

\* const RELAY_ROUTE = "/api/applications"
RELAY_ROUTE ==
  <<"/", "a", "p", "i", "/", "a", "p", "p", "l", "i", "c", "a", "t", "i", "o", "n", "s">>

SubmitApplicationText ==
  <<"s", "u", "b", "m", "i", "t", "-", "a", "p", "p", "l", "i", "c", "a", "t", "i", "o", "n">>

\* the text the tripwire puts on the error overlay
TripwireError == JLit("Tripwire: a request attempted \"/api/submit-application\"")

\* the window.fetch installed by the tripwire effect: what fatalError is after
\* a fetch of `url`, the request itself going on to the original fetch
tripwire(url) ==
  IF Includes(url, SubmitApplicationText) THEN TripwireError ELSE fatalError

\* submitEmailFromP5() up to `await postToCrm(payload)`: the Continue button of
\* the email stage, or Enter in its input
SubmitEmailFromP5 ==
  /\ view = "p5" /\ p5Stage = "email"
  /\ IF ~submitEmailProceeds
       THEN UNCHANGED wizardVars
       ELSE /\ Len(posted) < MaxPosts
            /\ \E c \in generateAccessCode :
                 LET em == safeTrimMax(email, 120)
                     payload1 == buildCanonPayload(
                                   [firstName |-> firstName, lastName |-> lastName,
                                    email |-> em, accessCode |-> nextCode(c)],
                                   Len(posted) + 1)
                     request == [url |-> RELAY_ROUTE, method |-> "POST",
                                 body |-> payload1, session |-> session]
                 IN /\ email' = em
                    /\ fatalError' = tripwire(request.url)
                    /\ accessCode' = IF accessCode = <<>> THEN nextCode(c) ELSE accessCode
                    /\ sendState' = "sending"
                    /\ sendMsg' = JLit("Sending your map delivery request...")
                    /\ inflight' = Append(inflight, request)
                    /\ posted' = Append(posted, request)
            /\ UNCHANGED <<view, firstName, lastName, codeInput, p2First, p5Stage,
                           rewardOn, rewardLetter, rewardCopy, rewardTimerRef, session>>

\* PostResolve with the code stage entered at once, without the acknowledgment
PostResolve_NoAcknowledgment(res) ==
  /\ inflight # <<>>
  /\ inflight' = Tail(inflight)
  /\ IF postToCrm(res).threw
       THEN /\ sendState' = "error"
            /\ sendMsg' = JLit(postToCrm(res).message)
            /\ UNCHANGED p5Stage
       ELSE /\ sendState' = "sent"
            /\ sendMsg' = JLit("Request sent.")
            /\ p5Stage' = "code"
  /\ UNCHANGED <<view, fatalError, firstName, lastName, email, accessCode, codeInput, p2First,
                 rewardOn, rewardLetter, rewardCopy, rewardTimerRef, posted, session>>

\* the fetch of postToCrm resolves with the relay's answer; submitEmailFromP5
\* continues after its await
PostResolve(res) ==
  /\ inflight # <<>>
  /\ inflight' = Tail(inflight)
  /\ IF postToCrm(res).threw
       THEN /\ sendState' = "error"
            /\ sendMsg' = JLit(postToCrm(res).message)
            /\ UNCHANGED <<rewardOn, rewardLetter, rewardCopy, rewardTimerRef>>
       ELSE /\ sendState' = "sent"
            /\ sendMsg' = JLit("Request sent."
                               \o IF Truthy(postToCrm(res).requestId)
                                    THEN " (requestId: " \o postToCrm(res).requestId.v \o ")"
                                    ELSE "")
            /\ showReward("L", "Map delivery unlocked.", "setP5Stage_code")
  /\ UNCHANGED <<view, fatalError, firstName, lastName, email, accessCode, codeInput, p2First,
                 p5Stage, posted, session>>

\* PostReject with the failed request sent again by the wizard itself
PostReject_Retries(err) ==
  /\ inflight # <<>>
  /\ Len(posted) < MaxPosts
  /\ inflight' = Append(Tail(inflight), Head(inflight))
  /\ posted' = Append(posted, Head(inflight))
  /\ UNCHANGED <<view, fatalError, firstName, lastName, email, accessCode, codeInput, p2First,
                 p5Stage, sendState, sendMsg, rewardOn, rewardLetter, rewardCopy,
                 rewardTimerRef, session>>

\* PostReject with a catch that leaves the send status alone
PostReject_KeepsSending(err) ==
  /\ inflight # <<>>
  /\ inflight' = Tail(inflight)
  /\ sendMsg' = IF err.v # "" THEN JLit(err.v)
                ELSE JLit("Failed to send. Open DevTools -> Network to see the request.")
  /\ UNCHANGED <<view, fatalError, firstName, lastName, email, accessCode, codeInput, p2First,
                 p5Stage, sendState, rewardOn, rewardLetter, rewardCopy, rewardTimerRef, posted,
                 session>>

\* the fetch of postToCrm rejects: the catch of submitEmailFromP5
PostReject(err) ==
  /\ inflight # <<>>
  /\ inflight' = Tail(inflight)
  /\ sendState' = "error"
  /\ sendMsg' = IF err.v # "" THEN JLit(err.v)
                ELSE JLit("Failed to send. Open DevTools -> Network to see the request.")
  /\ UNCHANGED <<view, fatalError, firstName, lastName, email, accessCode, codeInput, p2First,
                 p5Stage, rewardOn, rewardLetter, rewardCopy, rewardTimerRef, posted, session>>

\* holdMs of the three showReward calls
HoldMs(after) ==
  CASE after = "goTo_p3" -> 950
    [] after = "goTo_p4" -> 2300
    [] after = "setP5Stage_code" -> 1150

\* the timeout set by showReward fires: the overlay goes and `after` runs.
\* No focus timeout is set while the overlay is on, so a pending one was set
\* before this timeout and, when its delay is shorter, has fired before it
RewardTimerFires ==
  /\ rewardTimerRef # NoTimer
  /\ \A t \in focusTimers : t.ms >= HoldMs(rewardTimerRef)
  /\ rewardOn' = FALSE
  /\ rewardLetter' = JNull
  /\ rewardCopy' = JStr(<<>>)
  /\ rewardTimerRef' = NoTimer
  /\ CASE rewardTimerRef = "goTo_p3" -> view' = "p3" /\ UNCHANGED p5Stage
       [] rewardTimerRef = "goTo_p4" -> view' = "p4" /\ UNCHANGED p5Stage
       [] rewardTimerRef = "setP5Stage_code" -> p5Stage' = "code" /\ UNCHANGED view
  /\ UNCHANGED <<fatalError, firstName, lastName, email, accessCode, codeInput, p2First,
                 sendState, sendMsg, inflight, posted, session>>

\* onChange of the code input
SetCodeInput(t) ==
  /\ view = "p5" /\ p5Stage = "code"
  /\ ~rewardOn
  /\ codeInput' = t
  /\ UNCHANGED <<view, fatalError, firstName, lastName, email, accessCode, p2First, p5Stage,
                 sendState, sendMsg, rewardOn, rewardLetter, rewardCopy, rewardTimerRef,
                 inflight, posted, session>>

\* submitCodeAdvances with the two strings compared as typed, letter case included
submitCodeAdvances_CaseSensitive ==
  LET expected == Trim(accessCode)
      entered == Trim(codeInput)
  IN /\ ~rewardOn
     /\ entered # <<>>
     /\ ~(expected # <<>> /\ entered # expected)

\* the early returns of submitCode(): whether it reaches goTo("info")
submitCodeAdvances ==
  LET expected == ToUpperCase(Trim(accessCode))
      entered == ToUpperCase(Trim(codeInput))
  IN /\ ~rewardOn
     /\ entered # <<>>
     /\ ~(expected # <<>> /\ entered # expected)

\* submitCode(): the button of the code stage, or Enter in its input
SubmitCode ==
  /\ view = "p5" /\ p5Stage = "code"
  /\ IF submitCodeAdvances
       THEN /\ view' = "info"
            /\ UNCHANGED <<fatalError, firstName, lastName, email, accessCode, codeInput,
                           p2First, p5Stage, sendState, sendMsg, rewardOn, rewardLetter,
                           rewardCopy, rewardTimerRef, inflight, posted, session>>
       ELSE UNCHANGED wizardVars

\* BackToStart with the button rendered in every view, not in "info" only
BackToStart_FromAnyView ==
  /\ view' = "landing"
  /\ UNCHANGED <<fatalError, firstName, lastName, email, accessCode, codeInput, p2First,
                 p5Stage, sendState, sendMsg, rewardOn, rewardLetter, rewardCopy,
                 rewardTimerRef, inflight, posted, session>>

\* "Back to start" on the final screen: goTo("landing")
BackToStart ==
  /\ view = "info"
  /\ view' = "landing"
  /\ UNCHANGED <<fatalError, firstName, lastName, email, accessCode, codeInput, p2First,
                 p5Stage, sendState, sendMsg, rewardOn, rewardLetter, rewardCopy,
                 rewardTimerRef, inflight, posted, session>>

\* the window "error" listener: a runtime error anywhere on the page
OnError ==
  /\ fatalError' = JLit("Runtime error:")
  /\ UNCHANGED <<view, firstName, lastName, email, accessCode, codeInput, p2First, p5Stage,
                 sendState, sendMsg, rewardOn, rewardLetter, rewardCopy, rewardTimerRef,
                 inflight, posted, session>>

\* the Dismiss button of the error overlay
DismissFatal ==
  /\ fatalError # JNull
  /\ fatalError' = JNull
  /\ UNCHANGED <<view, firstName, lastName, email, accessCode, codeInput, p2First, p5Stage,
                 sendState, sendMsg, rewardOn, rewardLetter, rewardCopy, rewardTimerRef,
                 inflight, posted, session>>

\* setTimeout(() => ref.current?.focus(), ms) at `line` of App.tsx, set in
\* view `v` (sub-stage `st` of p5); handle is "kept" when the value setTimeout
\* returns is stored for clearTimeout and "dropped" when it is discarded
FocusTimer(ref, ms, line, handle, v, st) ==
  [ref |-> ref, ms |-> ms, line |-> line, handle |-> handle, view |-> v, stage |-> st]

\* what the two focus effects and the callback of the "L" reward do after the
\* render that follows a handler: the effect on [view, rewardOn, p5Stage]
\* runs when one of them changed, the effect on [view] when the view changed,
\* its cleanup clearing the timeout it had set
FocusEffects ==
  LET changed == <<view', rewardOn', p5Stage'>> # <<view, rewardOn, p5Stage>>
      callback == IF rewardTimerRef = "setP5Stage_code" /\ rewardTimerRef' = NoTimer
                    THEN {FocusTimer("codeRef", 80, 365, "dropped", "p5", "code")}
                    ELSE {}
      focusManagement ==
        IF changed /\ ~rewardOn'
          THEN CASE view' = "p3" -> {FocusTimer("lastRef", 60, 404, "dropped", "p3", "")}
                 [] view' = "p5" /\ p5Stage' = "email" ->
                      {FocusTimer("emailRef", 80, 407, "dropped", "p5", "email")}
                 [] view' = "p5" /\ p5Stage' = "code" ->
                      {FocusTimer("codeRef", 80, 408, "dropped", "p5", "code")}
                 [] OTHER -> {}
          ELSE {}
      cleaned == IF view' # view THEN {t \in focusTimers : t.handle # "kept"}
                 ELSE focusTimers
      cinematic == IF view' # view /\ view' = "p2"
                     THEN {FocusTimer("p2FirstRef", 18800, 416, "kept", "p2", "")}
                     ELSE {}
  IN focusTimers' = cleaned \cup callback \cup focusManagement \cup cinematic

\* of the focus timeouts that can be pending together, u is due before t: it
\* was set no later and its delay is no longer
DueBefore(u, t) == u.ms < t.ms \/ (u.ms = t.ms /\ u.line < t.line)

\* a focus timeout fires: ref.current?.focus() moves the input focus when the
\* input is still rendered and does nothing when the ref is null
FocusTimerFires(t) ==
  /\ t \in focusTimers
  /\ \A u \in focusTimers : ~DueBefore(u, t)
  /\ focusTimers' = focusTimers \ {t}
  /\ UNCHANGED wizardVars

\* the page is loaded; the relay is not part of these runs
WizardOnlyInit ==
  /\ WizardInit
  /\ peer = PeerIdle
  /\ RelayInit
  /\ variant = "App_b"
  /\ env = [base |-> Undefined, key |-> Undefined, debug |-> Undefined]
  /\ HomeInit

WizardNext ==
  \/ GoToDecode /\ FocusEffects /\ UNCHANGED <<relayVars, peer, homeVars>>
  \/ (\E t \in NameTexts : SetP2First(t)) /\ FocusEffects /\ UNCHANGED <<relayVars, peer, homeVars>>
  \/ SubmitFirstFromP2 /\ FocusEffects /\ UNCHANGED <<relayVars, peer, homeVars>>
  \/ (\E t \in LastNameTexts : SetLastName(t)) /\ FocusEffects /\ UNCHANGED <<relayVars, peer, homeVars>>
  \/ SubmitLast /\ FocusEffects /\ UNCHANGED <<relayVars, peer, homeVars>>
  \/ ContinueFromAwakening /\ FocusEffects /\ UNCHANGED <<relayVars, peer, homeVars>>
  \/ (\E t \in EmailTexts : SetEmail(t)) /\ FocusEffects /\ UNCHANGED <<relayVars, peer, homeVars>>
  \/ SubmitEmailFromP5 /\ FocusEffects /\ UNCHANGED <<relayVars, peer, homeVars>>
  \/ (\E res \in RelayAnswers : PostResolve(res)) /\ FocusEffects /\ UNCHANGED <<relayVars, peer, homeVars>>
  \/ (\E err \in TransportErrors : PostReject(err)) /\ FocusEffects /\ UNCHANGED <<relayVars, peer, homeVars>>
  \/ RewardTimerFires /\ FocusEffects /\ UNCHANGED <<relayVars, peer, homeVars>>
  \/ (\E t \in CodeTexts : SetCodeInput(t)) /\ FocusEffects /\ UNCHANGED <<relayVars, peer, homeVars>>
  \/ SubmitCode /\ FocusEffects /\ UNCHANGED <<relayVars, peer, homeVars>>
  \/ BackToStart /\ FocusEffects /\ UNCHANGED <<relayVars, peer, homeVars>>
  \/ OnError /\ FocusEffects /\ UNCHANGED <<relayVars, peer, homeVars>>
  \/ DismissFatal /\ FocusEffects /\ UNCHANGED <<relayVars, peer, homeVars>>
  \/ (\E t \in focusTimers : FocusTimerFires(t)) /\ UNCHANGED <<relayVars, peer, homeVars>>

WizardSpec == WizardOnlyInit /\ [][WizardNext]_vars

\* the wizard with time passing: a timeout that is pending and not cancelled
\* fires; nothing obliges the user to act or the relay to answer
WizardFairSpec ==
  /\ WizardSpec
  /\ WF_vars(RewardTimerFires /\ FocusEffects /\ UNCHANGED <<relayVars, peer, homeVars>>)
  /\ WF_vars((\E t \in focusTimers : FocusTimerFires(t)) /\ UNCHANGED <<relayVars, peer, homeVars>>)

(***************************************************************************)
(* Properties of the relay                                                 *)
(***************************************************************************)
\* a configuration value that is unset or empty
Absent(x) == ~Truthy(x)

\* a configuration value that every variant accepts
Configured(x) == Truthy(x) /\ Trim(x.v) # <<>>

ConfigValid == Configured(env.base) /\ Configured(env.key)

\* the request went past the checks of the handler's synchronous part
Handled == pc \in {"fetch", "readUpstream", "done"}

\* the body of the response sent, as a record of its members
Body(r) == IF r.body.t = "rec" THEN r.body.v ELSE EmptyRec

\* x is, or contains at any depth, the string s
RECURSIVE HasString(_, _)
HasString(x, s) ==
  CASE x.t = "str" -> x.v = s
    [] x.t = "rec" -> \E f \in DOMAIN x.v : HasString(x.v[f], s)
    [] x.t = "obj" -> \E i \in 1..Len(x.v) : HasString(x.v[i][2], s)
    [] OTHER -> FALSE

\* x has, at any depth, a member named by one of `names`
RECURSIVE HasMember(_, _)
HasMember(x, names) ==
  IF x.t = "rec"
    THEN \E f \in DOMAIN x.v : f \in names \/ HasMember(x.v[f], names)
    ELSE FALSE

\* the headers of an outbound call that name the credential, compared without case
CredentialHeaders(call) ==
  {i \in 1..Len(call.headers) : ToLowerCase(call.headers[i][1]) = ToLowerCase(XApiKeyName)}

\* C1: every outbound POST to the upstream carries exactly one header named
\* X-API-Key under case-insensitive comparison.
C1_OneCredentialHeader ==
  \A i \in 1..Len(outbound) :
    outbound[i].method = "POST" => Cardinality(CredentialHeaders(outbound[i])) = 1

\* C2: a request whose method is neither POST nor OPTIONS is answered with 405
\* and causes no outbound call, whatever the configuration and the body are.
C2_OtherMethodsRejected ==
  (pc # "idle" /\ req.method \notin {"POST", "OPTIONS"}) =>
    /\ pc = "done"
    /\ Len(responses) = 1
    /\ responses[1].status = 405
    /\ outbound = <<>>

C2_Witness ==
  /\ pc = "done"
  /\ req.method = "PUT"
  /\ req.raw = ApplicantRecordText
  /\ ConfigValid
  /\ Len(responses) = 1
  /\ responses[1].status = 405

\* C3: with valid configuration, a POST whose body is empty or does not parse
\* as JSON is answered with 400 and causes no outbound call.
C3_UnparseableBodyRejected ==
  (Handled /\ req.method = "POST" /\ ConfigValid
     /\ (req.raw = <<>> \/ ~JsonParse(req.raw).ok)) =>
    /\ outbound = <<>>
    /\ pc = "done"
    /\ Len(responses) = 1
    /\ responses[1].status = 400

\* C4: in the strict variants a POST whose parsed body has no `applicant` or
\* whose `applicant` is not a keyed record is answered with 400 and is not
\* forwarded; only bodies whose `applicant` is a keyed record are forwarded.
C4_ApplicantIsRecord ==
  (Handled /\ variant \in StrictVariants /\ req.method = "POST" /\ ConfigValid
     /\ JsonParse(req.raw).ok) =>
    IF GetMember(JsonParse(req.raw).value, Applicant).t = "obj"
      THEN Len(outbound) = 1
      ELSE /\ outbound = <<>>
           /\ pc = "done"
           /\ Len(responses) = 1
           /\ responses[1].status = 400

\* the response tells, for each of the two configuration values, whether it is absent
NamesAbsentValues(r) ==
  \/ /\ "missing" \in DOMAIN Body(r)
     /\ Body(r).missing =
          JRec([REPLIT_CRM_BASE_URL |-> JBool(Absent(env.base)),
                REPLIT_NP_API_KEY |-> JBool(Absent(env.key))])
  \/ /\ "debug" \in DOMAIN Body(r)
     /\ Body(r).debug.t = "rec"
     /\ {"hasBaseUrl", "hasApiKey"} \subseteq DOMAIN Body(r).debug.v
     /\ Body(r).debug.v.hasBaseUrl = JBool(~Absent(env.base))
     /\ Body(r).debug.v.hasApiKey = JBool(~Absent(env.key))

\* C5: a POST received while the base address or the credential is not
\* configured is answered with 500, the response tells for each of the two
\* values whether it is the absent one, and no outbound call is made.
C5_MissingConfigNamed ==
  (pc # "idle" /\ req.method = "POST"
     /\ (Absent(env.base) \/ Absent(env.key))
     /\ (Absent(env.base) \/ Configured(env.base))
     /\ (Absent(env.key) \/ Configured(env.key))) =>
    /\ pc = "done"
    /\ outbound = <<>>
    /\ Len(responses) = 1
    /\ responses[1].status = 500
    /\ NamesAbsentValues(responses[1])

\* the upstream answer arrived whole: its body was not cut by the network
UpstreamArrived ==
  /\ pc = "done"
  /\ upstream # NoUpstream
  /\ ~(thrown.at = "upstream.body" /\ thrown.err \in BodyErrors)

\* the response carries the upstream body B: parsed, or as the complete text
CarriesBody(r, B) ==
  /\ "upstreamBody" \in DOMAIN Body(r)
  /\ \/ JsonParse(B).ok /\ Body(r).upstreamBody = JsonParse(B).value
     \/ Body(r).upstreamBody = JStr(B)
     \/ Body(r).upstreamBody = JRec([raw |-> JStr(B)])

\* the response carries the upstream status S
CarriesStatus(r, S) ==
  \/ "upstreamStatus" \in DOMAIN Body(r) /\ Body(r).upstreamStatus = JNum(S)
  \/ "status" \in DOMAIN Body(r) /\ Body(r).status = JNum(S)

\* C6: when the upstream answers with status S >= 300 and body B, the relay's
\* failure response contains S and contains B unmodified, for every S and
\* every B of any length, with debug on or off.
C6_RejectionPreserved ==
  (UpstreamArrived /\ upstream.status >= 300) =>
    /\ Len(responses) = 1
    /\ Body(responses[1]).ok = JBool(FALSE)
    /\ CarriesStatus(responses[1], upstream.status)
    /\ CarriesBody(responses[1], upstream.text)

\* C7: with valid configuration and debug off, a POST with an `applicant`
\* record that the upstream answers with a 2xx status and JSON body B gets
\* status 200 and a body with ok = true and upstream = B.
C7_SuccessCarriesUpstream ==
  (UpstreamArrived /\ ConfigValid /\ env.debug = Undefined
     /\ req.raw = ApplicantRecordText
     /\ UpstreamOk(upstream) /\ JsonParse(upstream.text).ok) =>
    /\ Len(responses) = 1
    /\ responses[1].status = 200
    /\ Body(responses[1]).ok = JBool(TRUE)
    /\ "upstream" \in DOMAIN Body(responses[1])
    /\ Body(responses[1]).upstream = JsonParse(upstream.text).value

\* C8: for configured credentials of every non-zero length, debug on or off,
\* no field of any relay response equals the credential value.
C8_NoCredentialInResponse ==
  \A i \in 1..Len(responses) :
    Configured(env.key) => ~HasString(responses[i].body, env.key.v)

\* the debug flag is unset or is not "true" in any letter case
DebugOff == ToLowerCase(OrEmpty(env.debug).v) # TrueText

\* C9: when the debug flag is unset or has a value other than "true" (here: in
\* any letter case), no response contains the resolved upstream URL, the sent
\* payload or a stack trace.
C9_NoDiagnosticsWithoutDebug ==
  \A i \in 1..Len(responses) :
    DebugOff =>
      /\ ~HasMember(responses[i].body, {"upstreamUrl", "targetUrl", "sentPayload", "stack"})
      /\ Truthy(env.base) => ~HasString(responses[i].body, upstreamUrl(variant, env).v)

\* C10: when the outbound call itself throws, the relay answers with status
\* 500; every inbound request receives exactly one response, sent when the
\* handler ends, and no exception leaves the handler.
C10_TransportFailureAnswered ==
  /\ ~uncaught
  /\ pc = "done" => Len(responses) = 1
  /\ pc # "done" => responses = <<>>
  /\ (pc = "done" /\ thrown.at = "fetch") => responses[1].status = 500

C10_Witness ==
  /\ pc = "done"
  /\ thrown.at = "fetch"
  /\ Len(outbound) = 1
  /\ Len(responses) = 1
  /\ responses[1].status = 500

\* the response reports the upstream answer: success for a 2xx status, otherwise
\* a rejection that carries the upstream status
ReportsUpstream(r, up) ==
  IF UpstreamOk(up)
    THEN r.status = 200 /\ Body(r).ok = JBool(TRUE)
    ELSE Body(r).ok = JBool(FALSE) /\ CarriesStatus(r, up.status)

\* C11: every HTTP response actually received from the upstream, whatever its
\* status, content type and body, is reported as success or as an upstream
\* rejection carrying the upstream status; the generic network/runtime error
\* result is produced only when the outbound call itself fails.
C11_UpstreamNeverOpaque ==
  /\ UpstreamArrived =>
       /\ Len(responses) = 1
       /\ ReportsUpstream(responses[1], upstream)
  /\ (pc = "done" /\ thrown.at \in {"fetch", "upstream.body"}) =>
       (thrown.at = "fetch" \/ thrown.err \in BodyErrors)

\* the request passed the method, configuration and body checks of the handler
PassesChecks == thrown.at # "readRawBody" /\ Forwards(variant, env, req)

\* C12: an inbound request causes at most one outbound call: exactly one when
\* it passes the method, configuration and body checks, none otherwise, and
\* never a second one after an upstream rejection or a transport failure.
C12_AtMostOneOutboundCall ==
  /\ Len(outbound) <= 1
  /\ pc \in {"idle", "readRaw"} => outbound = <<>>
  /\ pc \in {"fetch", "readUpstream", "done"} =>
       Len(outbound) = IF PassesChecks THEN 1 ELSE 0

C12_Witness ==
  /\ pc = "done"
  /\ upstream.status = 403
  /\ PassesChecks
  /\ Len(outbound) = 1
  /\ Len(responses) = 1

\* C13: for the same request, the same configuration and the same upstream
\* response, all relay variants return the same HTTP status code (stated for
\* a request that every variant forwards: a POST of an `applicant` record
\* under a valid configuration, answered by the upstream).
C13_SameStatusInEveryVariant ==
  (UpstreamArrived /\ Len(responses) = 1 /\ ConfigValid
     /\ req.method = "POST" /\ req.raw = ApplicantRecordText) =>
    \A v \in Variants :
      handlerAlone(v, env, req, NetworkEvents(thrown, upstream)).status
        = responses[1].status

\* C14: an OPTIONS request is answered with a 2xx status and no body, carries
\* the permissive cross-origin headers, and causes no outbound call, whether
\* or not the configuration is present.
C14_OptionsAnswered ==
  (pc # "idle" /\ req.method = "OPTIONS") =>
    /\ pc = "done"
    /\ outbound = <<>>
    /\ Len(responses) = 1
    /\ responses[1].status \in 200..299
    /\ responses[1].body = Undefined
    /\ <<"Access-Control-Allow-Origin", "*">> \in responses[1].headers

\* the response invocation `i` would get handled alone
AloneResponse(i) ==
  handlerAlone(variant, env, i.req, NetworkEvents(i.thrown, i.upstream))

\* C15: relay invocations are independent: with two requests handled
\* concurrently under any interleaving of their steps, each request's response
\* equals the one it would get handled alone with the same configuration and
\* the same upstream answer.
C15_InvocationsIndependent ==
  /\ pc = "done" => responses = <<AloneResponse(Locals)>>
  /\ pc # "done" => responses = <<>>
  /\ peer.pc = "done" => peer.responses = <<AloneResponse(peer)>>
  /\ peer.pc # "done" => peer.responses = <<>>

C15_Witness ==
  /\ pc = "done"
  /\ peer.pc = "done"
  /\ upstream # NoUpstream
  /\ peer.upstream # NoUpstream
  /\ upstream # peer.upstream
  /\ req # peer.req
  /\ responses # peer.responses

(***************************************************************************)
(* Properties of the wizard                                                *)
(***************************************************************************)
\* the comparison of the gate: trimmed and upper-cased
Normalized(s) == ToUpperCase(Trim(s))

AtCodeStage == view = "p5" /\ p5Stage = "code"

\* the access code carried by a posted request
SentCode(r) == r.body.v.tracking.v.accessCode

\* the request identifier carried by a posted request
SentId(r) == r.body.v.requestId

\* C16: at the code sub-stage of a session whose generated access code is C,
\* submitCode advances to the final view exactly when the entered string,
\* trimmed and upper-cased, equals C trimmed and upper-cased; every other
\* entry leaves the view and all session state unchanged.
C16_AccessCodeGate ==
  /\ [](AtCodeStage =>
          /\ accessCode # <<>>
          /\ submitCodeAdvances <=> Normalized(codeInput) = Normalized(accessCode))
  /\ [][(AtCodeStage /\ codeInput' = codeInput /\ fatalError' = fatalError) =>
          \/ UNCHANGED wizardVars
          \/ /\ Normalized(codeInput) = Normalized(accessCode)
             /\ view' = "info"
             /\ UNCHANGED <<firstName, lastName, email, accessCode, p2First, p5Stage,
                            sendState, sendMsg, rewardOn, rewardLetter, rewardCopy,
                            rewardTimerRef, inflight, posted, session>>]_vars

C16_Witness ==
  /\ view = "info"
  /\ codeInput # accessCode
  /\ Normalized(codeInput) = accessCode

\* C17: at most one submission to the relay is in flight; submitEmailFromP5
\* invoked while a submission is in flight issues no second request and
\* changes no state.
C17_ResubmissionGuard ==
  /\ [](/\ Len(inflight) <= 1
        /\ inflight # <<>> => (sendState = "sending" /\ ~submitEmailProceeds))
  /\ [][inflight # <<>> => posted' = posted]_vars

C17_Witness ==
  /\ Len(inflight) = 1
  /\ view = "p5" /\ p5Stage = "email"
  /\ ~rewardOn
  /\ isValidEmail(safeTrimMax(email, 120))
  /\ Len(posted) < MaxPosts

\* C18: after the reset path back to the landing view (the final screen's
\* "Back to start") the session is at view landing with first name, last
\* name, email, access code and entered code empty, send status idle and no
\* timer pending.
C18_LandingIsReset ==
  view = "landing" =>
    /\ firstName = <<>>
    /\ lastName = <<>>
    /\ email = <<>>
    /\ accessCode = <<>>
    /\ codeInput = <<>>
    /\ sendState = "idle"
    /\ rewardTimerRef = NoTimer

C20_AccessCodeStable ==
  /\ [](/\ \A i \in 1..Len(posted) :
             posted[i].session = session => SentCode(posted[i]) = JStr(accessCode)
        /\ AtCodeStage =>
             /\ posted # <<>>
             /\ posted[Len(posted)].session = session)
  /\ [][(accessCode # <<>> /\ accessCode' # accessCode) =>
          (view = "landing" /\ view' = "p2" /\ accessCode' = <<>>)]_vars

C20_Witness ==
  /\ AtCodeStage
  /\ ~rewardOn
  /\ Len(posted) >= 2
  /\ posted[Len(posted) - 1].session = session
  /\ SentCode(posted[Len(posted)]) = JStr(accessCode)

\* the pending request completes as a failure: the relay answers non-2xx, or
\* the fetch rejects
FailedCompletion ==
  \/ \E res \in RelayAnswers : ~(res.status \in 200..299) /\ PostResolve(res)
  \/ \E err \in TransportErrors : PostReject(err)

\* the user submits the email and submitEmailFromP5 passes its early returns
UserSubmitsEmail == submitEmailProceeds /\ SubmitEmailFromP5

\* the email carried by a posted request
SentEmail(r) == r.body.v.applicant.v.email

\* C21: when a submission fails (relay non-2xx or the request throws) the
\* wizard stays at view p5 in the email sub-stage with send status error and
\* the entered email kept, a further submission is enabled, and the wizard
\* issues no further outbound request until the user submits again.
C21_FailureAllowsRetry ==
  /\ [][FailedCompletion =>
          /\ view' = "p5" /\ p5Stage' = "email"
          /\ sendState' = "error"
          /\ email' = email
          /\ JStr(email') = SentEmail(Head(inflight))
          /\ submitEmailProceeds'
          /\ inflight' = <<>>
          /\ posted' = posted]_vars
  /\ [][posted' # posted => UserSubmitsEmail]_vars

C21_Witness ==
  /\ sendState = "error"
  /\ view = "p5" /\ p5Stage = "email"
  /\ inflight = <<>>
  /\ Len(posted) = 2
  /\ posted[1].session = session
  /\ SentEmail(posted[1]) # SentEmail(posted[2])
  /\ JStr(email) = SentEmail(posted[2])

\* the pending request completes as a success: the relay answers 2xx
SuccessfulCompletion ==
  \E res \in RelayAnswers : res.status \in 200..299 /\ PostResolve(res)

\* C22: the wizard enters the code sub-stage only after a submission has
\* succeeded and the acknowledgment timer started by that success has fired;
\* it is never in the code sub-stage before that, and under fairness of the
\* timer a successful submission is always eventually followed by the code
\* sub-stage.
C22_CodeStageAfterSuccess ==
  /\ [](p5Stage = "code" =>
          /\ sendState = "sent"
          /\ posted # <<>> /\ posted[Len(posted)].session = session
          /\ inflight = <<>>)
  /\ [][(p5Stage # "code" /\ p5Stage' = "code") =>
          /\ sendState = "sent"
          /\ rewardTimerRef = "setP5Stage_code" /\ rewardTimerRef' = NoTimer]_vars
  /\ [][(rewardTimerRef # "setP5Stage_code" /\ rewardTimerRef' = "setP5Stage_code") =>
          SuccessfulCompletion]_vars
  /\ [][SuccessfulCompletion =>
          (sendState' = "sent" /\ rewardTimerRef' = "setP5Stage_code" /\ p5Stage' = "email")]_vars
  /\ (sendState = "sent" /\ p5Stage = "email") ~> (p5Stage = "code")

C22_Witness ==
  /\ AtCodeStage
  /\ ~rewardOn
  /\ Len(posted) = 2
  /\ posted[1].session = session

\* the email as submitEmailFromP5 tests it: trimmed and cut to 120 characters
GatedEmail == safeTrimMax(email, 120)

\* C23: submitEmailFromP5 with an email that does not match the pattern
\* local-part @ domain . domain (after trimming and truncation to 120
\* characters) issues no outbound request, generates no access code, and
\* leaves send status, sub-stage and view unchanged.
C23_EmailGate ==
  /\ [](\A i \in 1..Len(posted) : isValidEmail(SentEmail(posted[i]).v))
  /\ [](accessCode # <<>> => \E i \in 1..Len(posted) : posted[i].session = session)
  /\ [][~isValidEmail(GatedEmail) =>
          /\ posted' = posted /\ inflight' = inflight
          /\ accessCode = <<>> => accessCode' = <<>>]_vars
  /\ [][(view = "p5" /\ p5Stage = "email" /\ ~isValidEmail(GatedEmail) /\ SubmitEmailFromP5) =>
          UNCHANGED wizardVars]_vars

C23_Witness ==
  /\ view = "p5" /\ p5Stage = "email"
  /\ ~rewardOn
  /\ isValidEmail(email) /\ ~isValidEmail(GatedEmail)
  /\ sendState = "idle"
  /\ accessCode = <<>>

\* the edges of the claim: landing -> p2 -> p3 -> p4 -> p5 -> info -> landing
ViewEdges ==
  {<<"landing", "p2">>, <<"p2", "p3">>, <<"p3", "p4">>, <<"p4", "p5">>, <<"p5", "info">>,
   <<"info", "landing">>}

\* C24: the wizard's view changes only along the edges landing -> p2 -> p3 ->
\* p4 -> p5 (email, then code) -> info -> landing; no sequence of user
\* actions, timer firings and request completions skips a stage or produces
\* any other edge.
C24_ViewEdges ==
  /\ [][view' # view => <<view, view'>> \in ViewEdges]_vars
  /\ [][(view # "p5" /\ view' = "p5") => p5Stage' = "email"]_vars
  /\ [][(view = "p5" /\ p5Stage' # p5Stage) =>
          (view' = "p5" /\ p5Stage = "email" /\ p5Stage' = "code")]_vars
  /\ [][(view = "p5" /\ view' = "info") => p5Stage = "code"]_vars

C24_Witness ==
  /\ view = "info"
  /\ session = 2
  /\ firstName # <<>> /\ lastName # <<>>

\* C25: the wizard leaves p2 only after a first name that is non-empty after
\* trimming was submitted, and leaves p3 only after a last name that is
\* non-empty after trimming was submitted; in both cases the view changes
\* only when the acknowledgment timer fires, and a submission with an empty
\* or whitespace-only name changes no state and starts no timer.
C25_NameGates ==
  /\ [][(view = "p2" /\ view' # "p2") =>
          /\ firstName # <<>> /\ firstName = Trim(p2First)
          /\ rewardTimerRef = "goTo_p3" /\ rewardTimerRef' = NoTimer]_vars
  /\ [][(view = "p3" /\ view' # "p3") =>
          /\ lastName # <<>> /\ lastName = Trim(lastName)
          /\ rewardTimerRef = "goTo_p4" /\ rewardTimerRef' = NoTimer]_vars
  /\ [][(rewardTimerRef = NoTimer /\ rewardTimerRef' = "goTo_p3") =>
          (view = "p2" /\ Trim(p2First) # <<>> /\ firstName' = Trim(p2First))]_vars
  /\ [][(rewardTimerRef = NoTimer /\ rewardTimerRef' = "goTo_p4") =>
          (view = "p3" /\ Trim(lastName) # <<>> /\ lastName' = Trim(lastName))]_vars
  /\ [][(view = "p2" /\ Trim(p2First) = <<>> /\ SubmitFirstFromP2) =>
          UNCHANGED wizardVars]_vars
  /\ [][(view = "p3" /\ Trim(lastName) = <<>> /\ SubmitLast) =>
          UNCHANGED wizardVars]_vars

C25_Witness ==
  /\ view = "p4"
  /\ firstName = <<"A", "l">> /\ p2First = <<" ", "A", "l">>
  /\ lastName = <<"B", "o">>

\* C26: starting the decode from landing (goToDecode) clears all prior
\* session state: immediately after it, view is p2 and first name, last name,
\* email, access code, entered code are empty, the sub-stage is email, send
\* status is idle, and no reward timer is pending, whatever the state was
\* before.
C26_DecodeStartsClean ==
  [][(GoToDecode \/ (view = "landing" /\ view' # "landing")) =>
       /\ view' = "p2"
       /\ firstName' = <<>> /\ lastName' = <<>> /\ email' = <<>>
       /\ accessCode' = <<>> /\ codeInput' = <<>>
       /\ p5Stage' = "email"
       /\ sendState' = "idle"
       /\ rewardTimerRef' = NoTimer /\ ~rewardOn']_vars

C26_Witness ==
  /\ view = "p2"
  /\ session = 2
  /\ posted # <<>>
  /\ SentEmail(posted[1]) # JStr(email)
  /\ SentCode(posted[1]) # JStr(accessCode)

\* C27: the move from the transition stage (view p4) to the email sub-stage
\* is unconditional after a fixed display duration: once the duration has
\* elapsed the wizard is in view p5 with sub-stage email and send status idle,
\* without any validation and without any network request.
C27_TransitionUnconditional ==
  /\ [][(view = "p4" /\ view' # "p4") =>
          /\ view' = "p5" /\ p5Stage' = "email" /\ sendState' = "idle"
          /\ posted' = posted /\ inflight' = inflight]_vars
  /\ (view = "p4") ~> (view = "p5")

\* the stage a focus timeout was set in is still the current one
Current(t) == view = t.view /\ (t.view = "p5" => p5Stage = t.stage)

\* the stage the pending reward timeout was set in is still the current one
RewardTimerCurrent ==
  CASE rewardTimerRef = "goTo_p3" -> view = "p2"
    [] rewardTimerRef = "goTo_p4" -> view = "p3"
    [] rewardTimerRef = "setP5Stage_code" -> view = "p5" /\ p5Stage = "email"
    [] OTHER -> TRUE

\* C28: every delayed action the wizard schedules (reward timers, the
\* follow-up focus timers) can be cancelled, is cancelled when its originating
\* stage is superseded, and has no effect on wizard state if it fires after
\* its originating stage is no longer current.
C28_DelayedActionsCancelled ==
  /\ [](\A t \in focusTimers : t.handle = "kept")
  /\ [](RewardTimerCurrent /\ \A t \in focusTimers : Current(t))
  /\ [][(\E t \in focusTimers : ~Current(t) /\ FocusTimerFires(t)) =>
          UNCHANGED wizardVars]_vars

\* a request completes: the fetch of postToCrm resolves or rejects
Completion ==
  \/ \E res \in RelayAnswers : PostResolve(res)
  \/ \E err \in TransportErrors : PostReject(err)

\* C29: the result of a submission (success or failure) that completes after
\* the session was reset never changes the state of the new session: send
\* status, sub-stage, reward overlay and access code of a session are only
\* changed by completions of requests issued in that same session.
C29_CompletionsOfOwnSession ==
  /\ [](\A i \in 1..Len(inflight) : inflight[i].session = session)
  /\ [][session' # session => inflight = <<>>]_vars
  /\ [][Completion =>
          /\ Head(inflight).session = session
          /\ session' = session
          /\ accessCode' = accessCode
          /\ JStr(accessCode) = SentCode(Head(inflight))]_vars

C29_Witness ==
  /\ session = 2
  /\ Len(posted) = 2
  /\ posted[1].session = 1 /\ posted[2].session = 2
  /\ inflight = <<>>
  /\ sendState = "error"

\* the relay path the claim names
ApplicationsRoute ==
  <<"/", "a", "p", "i", "/", "a", "p", "p", "l", "i", "c", "a", "t", "i", "o", "n", "s">>

\* C30: the only network request the wizard ever issues is a POST to the relay
\* path /api/applications made by a gated email submission; the name steps,
\* the transition step and the code verification issue no request, and no
\* request of the wizard targets a URL containing "submit-application" (the
\* tripwire never fires from the wizard's own transitions).
C30_OnlyRelayPost ==
  /\ [](\A i \in 1..Len(posted) :
          /\ posted[i].url = ApplicationsRoute
          /\ posted[i].method = "POST"
          /\ ~Includes(posted[i].url, SubmitApplicationText))
  /\ [](fatalError # TripwireError)
  /\ [][posted' # posted =>
          /\ view = "p5" /\ p5Stage = "email"
          /\ ~rewardOn /\ sendState # "sending" /\ isValidEmail(GatedEmail)
          /\ posted' = Append(posted, inflight'[Len(inflight')])]_vars
  /\ [][(SubmitFirstFromP2 \/ SubmitLast \/ ContinueFromAwakening \/ SubmitCode) =>
          (posted' = posted /\ inflight' = inflight)]_vars

C30_Witness ==
  /\ view = "info"
  /\ session = 2
  /\ Len(posted) = 2
  /\ posted[2].session = 2
  /\ fatalError = JNull

\* the test of submitCode that lets any non-empty entry pass: `expected` is
\* empty, so `expected && entered !== expected` is falsy
ShortCircuit == Trim(accessCode) = <<>>

\* C31: in every reachable wizard state in which the code sub-stage is shown
\* (view p5, p5Stage = code) the session's access code is non-empty, so the
\* short-circuit in submitCode that accepts any non-empty entry when the
\* expected code is empty is never reachable.
C31_CodeStageHasCode ==
  (p5Stage = "code" \/ rewardTimerRef = "setP5Stage_code") =>
    /\ accessCode \in generateAccessCode
    /\ ~ShortCircuit
    /\ submitCodeAdvances => Normalized(codeInput) = accessCode

C31_Witness ==
  /\ AtCodeStage
  /\ ~rewardOn
  /\ codeInput = <<"Z">>
  /\ ~submitCodeAdvances

\* the moves of the send status the claim allows
SendStateMoves ==
  {<<"idle", "sending">>, <<"error", "sending">>, <<"sending", "sent">>,
   <<"sending", "error">>, <<"error", "idle">>, <<"sent", "idle">>}

\* C32: send status is sending if and only if exactly one submission is in
\* flight; send status moves only idle/error -> sending -> sent or error, and
\* returns to idle only by editing the email, entering the email stage from
\* p4, or resetFlow, none of which can happen while a submission is in flight.
C32_SendStateTracksRequest ==
  /\ [](Len(inflight) <= 1 /\ (sendState = "sending" <=> Len(inflight) = 1))
  /\ [][sendState' # sendState => <<sendState, sendState'>> \in SendStateMoves]_vars
  /\ [][(sendState # "idle" /\ sendState' = "idle") =>
          /\ inflight = <<>>
          /\ (\E t \in EmailTexts : SetEmail(t)) \/ GoToDecode]_vars
  /\ [][((\E t \in EmailTexts : SetEmail(t)) \/ GoToDecode \/ (view = "p4" /\ view' = "p5")) =>
          (inflight = <<>> /\ sendState' = "idle")]_vars

C32_Witness ==
  /\ sendState = "sending"
  /\ Len(inflight) = 1
  /\ Len(posted) = 2
  /\ posted[1].session = session
  /\ inflight[1] = posted[2]

\* one of the five submit handlers runs
SubmitHandler ==
  SubmitFirstFromP2 \/ SubmitLast \/ ContinueFromAwakening \/ SubmitEmailFromP5 \/ SubmitCode

\* C33: at most one reward timer is pending at any time and the reward overlay
\* is on exactly while one is pending; while the overlay is on,
\* submitFirstFromP2, submitLast, continueFromAwakening, submitEmailFromP5 and
\* submitCode change no state and issue no request.
C33_OneRewardTimer ==
  /\ [](rewardOn <=> rewardTimerRef # NoTimer)
  /\ [][rewardTimerRef' \notin {NoTimer, rewardTimerRef} =>
          (rewardTimerRef = NoTimer /\ ~rewardOn)]_vars
  /\ [][(rewardOn /\ SubmitHandler) => UNCHANGED wizardVars]_vars
  /\ [][rewardOn => (posted' = posted /\ inflight' = inflight)]_vars

C33_Witness ==
  /\ rewardOn
  /\ rewardTimerRef = "setP5Stage_code"
  /\ view = "p5" /\ p5Stage = "email"
  /\ isValidEmail(GatedEmail)
  /\ Len(posted) < MaxPosts

(***************************************************************************)
(* The lead payload on the wire and at the relay                           *)
(***************************************************************************)
\* the characters of the property names and string literals of the payload,
\* and of the keys and parameter names of the landing page
Chars(s) ==
  CASE s = "" -> <<>>
    [] s = "source" ->
         <<"s", "o", "u", "r", "c", "e">>
    [] s = "requestId" ->
         <<"r", "e", "q", "u", "e", "s", "t", "I", "d">>
    [] s = "startedAt" ->
         <<"s", "t", "a", "r", "t", "e", "d", "A", "t">>
    [] s = "tracking" ->
         <<"t", "r", "a", "c", "k", "i", "n", "g">>
    [] s = "applicant" ->
         <<"a", "p", "p", "l", "i", "c", "a", "n", "t">>
    [] s = "event" ->
         <<"e", "v", "e", "n", "t">>
    [] s = "accessCode" ->
         <<"a", "c", "c", "e", "s", "s", "C", "o", "d", "e">>
    [] s = "userAgent" ->
         <<"u", "s", "e", "r", "A", "g", "e", "n", "t">>
    [] s = "pageUrl" ->
         <<"p", "a", "g", "e", "U", "r", "l">>
    [] s = "referrer" ->
         <<"r", "e", "f", "e", "r", "r", "e", "r">>
    [] s = "firstName" ->
         <<"f", "i", "r", "s", "t", "N", "a", "m", "e">>
    [] s = "lastName" ->
         <<"l", "a", "s", "t", "N", "a", "m", "e">>
    [] s = "email" ->
         <<"e", "m", "a", "i", "l">>
    [] s = "phone" ->
         <<"p", "h", "o", "n", "e">>
    [] s = "consent" ->
         <<"c", "o", "n", "s", "e", "n", "t">>
    [] s = "vehicleType" ->
         <<"v", "e", "h", "i", "c", "l", "e", "T", "y", "p", "e">>
    [] s = "incomeAbove1800" ->
         <<"i", "n", "c", "o", "m", "e", "A", "b", "o", "v", "e", "1", "8", "0", "0">>
    [] s = "monthlyIncome" ->
         <<"m", "o", "n", "t", "h", "l", "y", "I", "n", "c", "o", "m", "e">>
    [] s = "yearsReceivingIncome" ->
         <<"y", "e", "a", "r", "s", "R", "e", "c", "e", "i", "v", "i", "n", "g", "I", "n", "c", "o", "m", "e">>
    [] s = "monthsReceivingIncome" ->
         <<"m", "o", "n", "t", "h", "s", "R", "e", "c", "e", "i", "v", "i", "n", "g", "I", "n", "c", "o", "m", "e">>
    [] s = "dobMonth" ->
         <<"d", "o", "b", "M", "o", "n", "t", "h">>
    [] s = "dobDay" ->
         <<"d", "o", "b", "D", "a", "y">>
    [] s = "dobYear" ->
         <<"d", "o", "b", "Y", "e", "a", "r">>
    [] s = "companyName" ->
         <<"c", "o", "m", "p", "a", "n", "y", "N", "a", "m", "e">>
    [] s = "jobTitle" ->
         <<"j", "o", "b", "T", "i", "t", "l", "e">>
    [] s = "housingPayment" ->
         <<"h", "o", "u", "s", "i", "n", "g", "P", "a", "y", "m", "e", "n", "t">>
    [] s = "street1" ->
         <<"s", "t", "r", "e", "e", "t", "1">>
    [] s = "street2" ->
         <<"s", "t", "r", "e", "e", "t", "2">>
    [] s = "city" ->
         <<"c", "i", "t", "y">>
    [] s = "state" ->
         <<"s", "t", "a", "t", "e">>
    [] s = "zip" ->
         <<"z", "i", "p">>
    [] s = "yearsAtAddress" ->
         <<"y", "e", "a", "r", "s", "A", "t", "A", "d", "d", "r", "e", "s", "s">>
    [] s = "monthsAtAddress" ->
         <<"m", "o", "n", "t", "h", "s", "A", "t", "A", "d", "d", "r", "e", "s", "s">>
    [] s = "ssn" ->
         <<"s", "s", "n">>
    [] s = "balance-cypher-v2-clean" ->
         <<"b", "a", "l", "a", "n", "c", "e", "-", "c", "y", "p", "h", "e", "r", "-", "v", "2", "-", "c", "l", "e", "a", "n">>
    [] s = "<now>" ->
         <<"<", "n", "o", "w", ">">>
    [] s = "decode_email_submit" ->
         <<"d", "e", "c", "o", "d", "e", "_", "e", "m", "a", "i", "l", "_", "s", "u", "b", "m", "i", "t">>
    [] s = "<navigator.userAgent>" ->
         <<"<", "n", "a", "v", "i", "g", "a", "t", "o", "r", ".", "u", "s", "e", "r", "A", "g", "e", "n", "t", ">">>
    [] s = "<window.location.href>" ->
         <<"<", "w", "i", "n", "d", "o", "w", ".", "l", "o", "c", "a", "t", "i", "o", "n", ".", "h", "r", "e", "f", ">">>
    [] s = "<document.referrer>" ->
         <<"<", "d", "o", "c", "u", "m", "e", "n", "t", ".", "r", "e", "f", "e", "r", "r", "e", "r", ">">>
    [] s = "goal" ->
         <<"g", "o", "a", "l">>
    [] s = "timeline" ->
         <<"t", "i", "m", "e", "l", "i", "n", "e">>
    [] s = "friction" ->
         <<"f", "r", "i", "c", "t", "i", "o", "n">>
    [] s = "raise" ->
         <<"r", "a", "i", "s", "e">>
    [] s = "approve" ->
         <<"a", "p", "p", "r", "o", "v", "e">>
    [] s = "lower" ->
         <<"l", "o", "w", "e", "r">>
    [] s = "calm" ->
         <<"c", "a", "l", "m">>
    [] s = "fast" ->
         <<"f", "a", "s", "t">>
    [] s = "steady" ->
         <<"s", "t", "e", "a", "d", "y">>
    [] s = "confused" ->
         <<"c", "o", "n", "f", "u", "s", "e", "d">>
    [] s = "overwhelmed" ->
         <<"o", "v", "e", "r", "w", "h", "e", "l", "m", "e", "d">>
    [] s = "noPlan" ->
         <<"n", "o", "P", "l", "a", "n">>
    [] s = "noFollowThrough" ->
         <<"n", "o", "F", "o", "l", "l", "o", "w", "T", "h", "r", "o", "u", "g", "h">>

\* the property names of the object literals of buildCanonPayload, in the
\* order of the source: the payload, its `tracking` and its `applicant`
KeyOrder(r) ==
  IF "applicant" \in DOMAIN r THEN
    <<"source", "requestId", "startedAt", "tracking", "applicant">>
  ELSE IF "event" \in DOMAIN r THEN
    <<"event", "accessCode", "userAgent", "pageUrl", "referrer">>
  ELSE
    <<"firstName", "lastName", "email", "phone", "consent", "vehicleType", "incomeAbove1800",
    "monthlyIncome", "yearsReceivingIncome", "monthsReceivingIncome", "dobMonth", "dobDay",
    "dobYear", "companyName", "jobTitle", "housingPayment", "street1", "street2", "city",
    "state", "zip", "yearsAtAddress", "monthsAtAddress", "ssn">>

\* the payload as JSON.stringify walks it: own properties in insertion order
RECURSIVE Serializable(_)
Serializable(x) ==
  CASE x.t = "rec" ->
         JObj([i \in 1..Len(KeyOrder(x.v)) |->
                 <<Chars(KeyOrder(x.v)[i]), Serializable(x.v[KeyOrder(x.v)[i]])>>])
    [] x.t = "lit" -> JStr(Chars(x.v))
    [] OTHER -> x

\* body: JSON.stringify(payload) of postToCrm()
RequestBodyText(lead) == StringifyText(Serializable(lead))

\* the wizard's request as the relay's host hands it to the handler
RelayRequest(r, delivery) ==
  [method |-> r.method, raw |-> RequestBodyText(r.body), delivery |-> delivery]

\* the request the step has just issued
Issued == posted'[Len(posted')]

\* the strict variants' body checks let the request r through, however the
\* host delivers the body, in a deployment with its configuration complete
\* and debug off
PassesApplicantValidation(r) ==
  LET e == CHOOSE x \in PairEnvs :
             x.debug = Undefined /\ \A v \in StrictVariants : ConfigResponse(v, x) = Undefined
  IN \A v \in StrictVariants, d \in {"string", "object"} :
       LET c == BodyChecksStrict(v, e, ReqBody(RelayRequest(r, d))) IN
       /\ c.resp = Undefined
       /\ hasApplicant(c.payload)
       /\ GetMember(GetMember(c.payload, Applicant), Chars("email")) = SentEmail(r)

\* C34: every request the wizard issues carries a first name and a last name
\* that are not empty, an email that passes isValidEmail, and the access code
\* of the session, which is not empty; its body has an `applicant` record, and
\* the applicant validation of the strict relay variants lets it through
C34_LeadPayloadComplete ==
  /\ [](\A i \in 1..Len(posted) :
          /\ Member(posted[i].body, "applicant").t = "rec"
          /\ posted[i].body.v.applicant.v.firstName.v # <<>>
          /\ posted[i].body.v.applicant.v.lastName.v # <<>>
          /\ isValidEmail(SentEmail(posted[i]).v)
          /\ SentCode(posted[i]).v # <<>>
          /\ posted[i].session = session => SentCode(posted[i]) = JStr(accessCode))
  /\ [][posted' # posted =>
          /\ SentCode(Issued) = JStr(accessCode')
          /\ Issued.body.v.applicant.v.firstName = JStr(firstName)
          /\ Issued.body.v.applicant.v.lastName = JStr(lastName)
          /\ PassesApplicantValidation(Issued)]_vars

\* a second request of a session is in flight, with the code of the first
C34_Witness ==
  /\ Len(posted) = 2 /\ Len(inflight) = 1
  /\ posted[1].session = session
  /\ SentCode(posted[2]) = SentCode(posted[1])
  /\ SentEmail(posted[2]) # SentEmail(posted[1])

\* the wizard with a relay route that answers: every request issued to it
\* eventually completes (with whatever status) or fails
WizardAnsweredSpec ==
  /\ WizardSpec
  /\ WF_vars(Completion /\ FocusEffects /\ UNCHANGED <<relayVars, peer, homeVars>>)

\* C35: when every request issued to the relay eventually completes or fails,
\* a state with send status "sending" is eventually followed by a state with
\* send status "sent" or "error"
C35_SendingEnds == (sendState = "sending") ~> (sendState \in {"sent", "error"})

\* a request of the session failed, the next one of the same session succeeded
C35_Witness ==
  /\ sendState = "sent" /\ inflight = <<>>
  /\ Len(posted) = 2 /\ posted[1].session = session

\* what a submission in flight pins down: the view and its sub-stage, the
\* captured fields and what is typed, the access code, the send status and the
\* requests issued
SubmissionFrame ==
  <<view, p5Stage, p2First, firstName, lastName, email, codeInput, accessCode, sendState,
    rewardOn, rewardTimerRef, inflight, posted, session>>

\* C36: while a request is in flight, a step that is not its completion or
\* failure changes neither the view, the captured fields, the access code nor
\* the send status, and issues no request; the send status leaves "sending"
\* only in the step in which the request completes or fails
C36_InFlightFrame ==
  /\ [][(inflight # <<>> /\ ~Completion) => UNCHANGED SubmissionFrame]_vars
  /\ [][(sendState = "sending" /\ sendState' # "sending") =>
          (Completion /\ inflight' = <<>>)]_vars
  /\ [](inflight # <<>> =>
          /\ view = "p5" /\ p5Stage = "email" /\ ~rewardOn
          /\ ~submitEmailProceeds
          /\ ~ENABLED (\E t \in EmailTexts : SetEmail(t))
          /\ ~ENABLED GoToDecode)

\* a runtime error is reported while a request is in flight, the fields as
\* they were sent
C36_Witness ==
  /\ Len(inflight) = 1 /\ sendState = "sending"
  /\ fatalError = JLit("Runtime error:")
  /\ JStr(email) = SentEmail(inflight[1])

\* the invocation ended with the one response of status s and no outbound call
AnsweredAtOnce(s) ==
  /\ pc = "done"
  /\ Len(responses) = 1
  /\ responses[1].status = s
  /\ outbound = <<>>
  /\ thrown = NoThrow

ConfigMissing == Absent(env.base) \/ Absent(env.key)

\* the `error` member of the response r, undefined when it has none
ErrorOf(r) == IF "error" \in DOMAIN Body(r) THEN Body(r).error ELSE Undefined

\* the request body does not parse, in a variant that parses it
BodyUnparseable ==
  \/ variant = "part_000" /\ (Trim(req.raw) = <<>> \/ ~JsonParse(req.raw).ok)
  \/ variant \in StrictVariants /\ req.delivery = "string" /\ ~JsonParse(req.raw).ok

\* C37 as stated: every request that is not a POST gets 405, and a POST with
\* missing configuration gets 500, whatever else is wrong with the request
C37_NonPostGets405 ==
  pc # "idle" =>
    /\ req.method # "POST" => AnsweredAtOnce(405)
    /\ (req.method = "POST" /\ ConfigMissing) => AnsweredAtOnce(500)

\* C37, amended: the checks run in the order method, configuration, body
\* parse, applicant validation and the first that fails gives the response: a
\* request that is neither POST nor OPTIONS gets 405 and an OPTIONS request
\* the answer of the method check (200, 204 or 405 by variant), also with the
\* configuration missing; a POST with missing configuration gets 500, also
\* with an invalid body; with the configuration present a body that does not
\* parse gets the 400 of the parse, and the 400 of the applicant validation is
\* sent only for a body that parses
C37_ChecksInOrder ==
  /\ (pc # "idle" /\ req.method \notin {"POST", "OPTIONS"}) => AnsweredAtOnce(405)
  /\ (pc # "idle" /\ req.method = "OPTIONS") =>
       /\ AnsweredAtOnce(CASE variant = "part_000" -> 200
                            [] variant \in StrictVariants -> 204
                            [] OTHER -> 405)
  /\ (pc # "idle" /\ req.method = "POST" /\ ConfigMissing) => AnsweredAtOnce(500)
  /\ (pc = "done" /\ req.method = "POST" /\ ~ConfigMissing /\ thrown = NoThrow
        /\ ConfigResponse(variant, env) = Undefined /\ BodyUnparseable) =>
       /\ AnsweredAtOnce(400)
       /\ ErrorOf(responses[1]) \in
            {JLit("Empty request body received by relay"), JLit("Invalid JSON body"),
             JLit("Invalid JSON payload")}
  /\ (pc = "done" /\ Len(responses) = 1
        /\ ErrorOf(responses[1]) = JLit("Payload missing required 'applicant' object")) =>
       /\ variant \in StrictVariants
       /\ req.method = "POST"
       /\ ConfigResponse(variant, env) = Undefined
       /\ ~BodyUnparseable
       /\ ~hasApplicant(ReqBody(req))
       /\ AnsweredAtOnce(400)

\* a POST with the credential missing and a body that does not parse, answered
\* 500 by a variant that would reject the body
C37_Witness ==
  /\ variant = "part_001"
  /\ req.method = "POST" /\ req.raw = <<"h", "i">>
  /\ Absent(env.key) /\ ~Absent(env.base)
  /\ AnsweredAtOnce(500)

(***************************************************************************)
(* The landing page: Home() of pages/Home                                  *)
(***************************************************************************)
\* const ROUTES
ROUTES ==
  [overview |-> <<"/", "o", "v", "e", "r", "v", "i", "e", "w">>,
   reversal |-> <<"/", "r", "e", "v", "e", "r", "s", "a", "l">>,
   vitReact |-> <<"/", "v", "i", "t", "-", "r", "e", "a", "c", "t">>]

\* BALANCE_APP.applyPath
ApplyPath == <<"/", "?", "s", "t", "a", "r", "t", "=", "d", "e", "c", "o", "d", "e">>

GoalKeys == {"raise", "approve", "lower", "calm"}
TimelineKeys == {"fast", "steady"}
FrictionKeys == {"confused", "overwhelmed", "noPlan", "noFollowThrough"}

\* BALANCE_APP.baseUrl: "" as committed, blank, and the address of a deployed
\* app without and with a trailing slash
AppBaseUrls ==
  LET app == <<"h", "t", "t", "p", "s", ":", "/", "/", "b", ".", "a", "p", "p">>
  IN {<<>>, <<" ">>, app, app \o <<"/">>}

\* safeJoinUrl without the test `if (!base) return ""`
safeJoinUrl_NoEmptyCheck(base0, pathWithQuery) ==
  LET base == Trim(base0)
      baseNoSlash == IF base # <<>> /\ base[Len(base)] = "/"
                       THEN SubSeq(base, 1, Len(base) - 1) ELSE base
      path == IF pathWithQuery # <<>> /\ Head(pathWithQuery) = "/"
                THEN pathWithQuery ELSE <<"/">> \o pathWithQuery
  IN baseNoSlash \o path

\* safeJoinUrl(baseUrl, pathWithQuery), the first argument written base0
safeJoinUrl(base0, pathWithQuery) ==
  LET base == Trim(base0)
      baseNoSlash == IF base # <<>> /\ base[Len(base)] = "/"
                       THEN SubSeq(base, 1, Len(base) - 1) ELSE base
      path == IF pathWithQuery # <<>> /\ Head(pathWithQuery) = "/"
                THEN pathWithQuery ELSE <<"/">> \o pathWithQuery
  IN IF base = <<>> THEN <<>> ELSE baseNoSlash \o path

\* qp.toString() after the three qp.set calls: the keys hold letters only,
\* which URLSearchParams leaves as they are
QueryString(args) ==
  Chars("goal") \o <<"=">> \o Chars(args.goal) \o <<"&">>
    \o Chars("timeline") \o <<"=">> \o Chars(args.timeline) \o <<"&">>
    \o Chars("friction") \o <<"=">> \o Chars(args.friction)

\* buildAppApplyHref(args)
buildAppApplyHref(args) ==
  LET urlBase == safeJoinUrl(appBaseUrl, ApplyPath) IN
  IF urlBase = <<>> THEN <<>>
  ELSE urlBase \o (IF Includes(urlBase, <<"?">>) THEN <<"&">> ELSE <<"?">>)
         \o QueryString(args)

\* getGoalRoute(goal)
getGoalRoute(g) ==
  CASE g = "approve" -> ROUTES.overview
    [] g = "lower" -> ROUTES.reversal
    [] g = "calm" -> ROUTES.vitReact
    [] OTHER -> ROUTES.overview

\* ActionLink(props): the element it renders, an <a> opening `href` in a new
\* tab or a router <Link> to a route of this site
ActionLink(props) ==
  IF props.external
    THEN LET href == Trim(OrEmpty(props.href).v) IN
         IF href # <<>>
           THEN [tag |-> "a", href |-> href]
           ELSE [tag |-> "Link",
                 to |-> FirstTruthy(<<props.fallbackTo, props.to, JStr(<<"/">>)>>).v]
    ELSE [tag |-> "Link", to |-> FirstTruthy(<<props.to, JStr(<<"/">>)>>).v]

\* the "Apply this decode" link as Home() renders it
ApplyDecodeLink ==
  ActionLink([variant |-> "primary", external |-> TRUE,
              href |-> JStr(buildAppApplyHref(
                              [goal |-> goal, timeline |-> timeline, friction |-> friction])),
              fallbackTo |-> JStr(getGoalRoute(goal)), to |-> Undefined])

\* Home is on screen: a <Link> that was followed has replaced it
HomeMounted == opened.tag # "Link"

\* the chips: onClick={() => setGoal(k)}, setTimeline(k), setFriction(k)
SetGoal(k) ==
  /\ HomeMounted
  /\ goal' = k
  /\ UNCHANGED <<timeline, friction, revealed, appBaseUrl, opened>>

SetTimeline(k) ==
  /\ HomeMounted
  /\ timeline' = k
  /\ UNCHANGED <<goal, friction, revealed, appBaseUrl, opened>>

SetFriction(k) ==
  /\ HomeMounted
  /\ friction' = k
  /\ UNCHANGED <<goal, timeline, revealed, appBaseUrl, opened>>

\* "Tap to Reveal" and its closing button: setRevealed(true), setRevealed(false)
ToggleRevealed ==
  /\ HomeMounted
  /\ revealed' = ~revealed
  /\ UNCHANGED <<goal, timeline, friction, appBaseUrl, opened>>

\* a click on the "Apply this decode" link
FollowApplyLink ==
  /\ HomeMounted
  /\ opened' = ApplyDecodeLink
  /\ UNCHANGED <<goal, timeline, friction, revealed, appBaseUrl>>

HomeOnlyInit ==
  /\ RelayInit
  /\ variant = "App_b"
  /\ env = [base |-> Undefined, key |-> Undefined, debug |-> Undefined]
  /\ peer = PeerIdle
  /\ WizardInit
  /\ goal = "raise"
  /\ timeline = "fast"
  /\ friction = "overwhelmed"
  /\ revealed = FALSE
  /\ appBaseUrl \in AppBaseUrls
  /\ opened = NoNavigation

HomeNext ==
  \/ (\E k \in GoalKeys : SetGoal(k)) /\ UNCHANGED <<relayVars, peer, wizardVars, focusTimers>>
  \/ (\E k \in TimelineKeys : SetTimeline(k))
       /\ UNCHANGED <<relayVars, peer, wizardVars, focusTimers>>
  \/ (\E k \in FrictionKeys : SetFriction(k))
       /\ UNCHANGED <<relayVars, peer, wizardVars, focusTimers>>
  \/ ToggleRevealed /\ UNCHANGED <<relayVars, peer, wizardVars, focusTimers>>
  \/ FollowApplyLink /\ UNCHANGED <<relayVars, peer, wizardVars, focusTimers>>

HomeSpec == HomeOnlyInit /\ [][HomeNext]_vars

\* C38: with BALANCE_APP.baseUrl empty, for every selection of goal, timeline
\* and friction the "Apply this decode" link is a router link to the route of
\* the selected goal (raise and approve: /overview, lower: /reversal, calm:
\* /vit-react), never an external href, and following it leads to that route
C38_ApplyLinkInternal ==
  appBaseUrl = <<>> =>
    LET route == CASE goal \in {"raise", "approve"} -> <<"/", "o", "v", "e", "r", "v", "i", "e", "w">>
                   [] goal = "lower" -> <<"/", "r", "e", "v", "e", "r", "s", "a", "l">>
                   [] goal = "calm" -> <<"/", "v", "i", "t", "-", "r", "e", "a", "c", "t">>
    IN /\ ApplyDecodeLink = [tag |-> "Link", to |-> route]
       /\ opened # NoNavigation => opened = [tag |-> "Link", to |-> route]

\* the link followed with calm, steady and "No plan" selected
C38_Witness ==
  /\ appBaseUrl = <<>>
  /\ goal = "calm" /\ timeline = "steady" /\ friction = "noPlan"
  /\ opened = [tag |-> "Link", to |-> ROUTES.vitReact]
====
